---- MODULE Spec2Model ----
(***************************************************************************)
(* Verification model of the XRD analysis core (src/src/core):             *)
(*   - match_peaks_with_reference  (peak_detection.py)                     *)
(*   - ReferencePattern            (reference_pattern.py)                  *)
(*   - RAWParser / text parsers    (file_parser.py)                        *)
(*                                                                         *)
(* Units.  Angles handled by the matcher are integers in tenths of a       *)
(* degree two-theta; a tolerance of 0.2 degrees is 2.  Quotients that the  *)
(* code computes in floating point are kept as exact fractions <<n, d>>.   *)
(* Python indices are 0-based, the sequences here are 1-based: reference   *)
(* index i of the model is index i-1 of the code.                          *)
(***************************************************************************)
EXTENDS Integers, Sequences, FiniteSets, TLC

(***************************************************************************)
(* Bounds of the model.                                                    *)
(***************************************************************************)
MaxAngle == 2
MaxDetected == 2
MaxRef == 2
MaxPattern == 2
MaxExtra == 1
MaxLines == 2
MaxElements == 1
MaxPoints == 3
MaxIterations == 2
MaxDistance == 2
MaxSamples == 5
MaxFiles == 2
MaxPaths == 2
MaxStored == 1
MaxWindow == 12
MaxOps == 4

(***************************************************************************)
(* State.  Each group holds the locals of one function of the code and its *)
(* control position; a group that a specification does not exercise stays  *)
(* at its idle value.                                                      *)
(***************************************************************************)
\* match_peaks_with_reference (peak_detection.py)
VARIABLES detected_peaks, reference_data, reference_pattern, tolerance,
          match_pc, det_pos, matched_peaks, matched_ref_indices,
          match_result

\* RAWParser.parse (file_parser.py)
VARIABLES data, raw_pc, data_count, data_offset, start_angle, end_angle,
          step, intensities, two_thetas

\* DATParser / ASCParser / TXTParser (file_parser.py)
VARIABLES lines, text_kind, text_pc, text_result, written

\* XRDMLParser (file_parser.py)
VARIABLES xml, xrdml_pc, xrdml_result

\* parse_xrd_file (file_parser.py)
VARIABLES path, dispatch_pc, selected

\* background_subtraction.py
VARIABLES bg_call, bg_intensity, bg_pc, bg_round, bg_mask, background, corrected

\* subtract_background / strip_kalpha / detect_peaks dispatch
VARIABLES request, method_pc, invoked, error_lists

\* rachinger_correction / iterative_rachinger_correction (kalpha_stripping.py)
VARIABLES ka_call, ka_intensity, ka_pc, ka_round, current_intensity, kalpha1, kalpha2

\* detect_peaks_threshold (peak_detection.py)
VARIABLES th_call, th_pc, th_i, th_threshold, th_peaks

\* calculate_fwhm (peak_detection.py)
VARIABLES fw_call, fw_pc, fw_half_max, left_2theta, right_2theta, fwhm

\* get_filtered_peaks (peak_detection.py, main_window.py)
VARIABLES fp_call, fp_pc, all_peak_indices, all_properties, detected_set, filtered_peaks, filtered_peaks_label

\* ReferenceDatabase (reference_pattern.py)
VARIABLES db_patterns, db_call, db_result

\* detect_peaks_savgol (peak_detection.py)
VARIABLES sg_len, window_length, sg_pc

\* MainWindow (main_window.py)
VARIABLES mw_heap, current_data, processed_data, mw_detected_peaks, peak_match_result, current_ref_pattern, projects, current_project, mw_call, mw_ops

matchVars == <<detected_peaks, reference_data, reference_pattern, tolerance,
               match_pc, det_pos, matched_peaks, matched_ref_indices,
               match_result>>

rawVars == <<data, raw_pc, data_count, data_offset, start_angle, end_angle,
             step, intensities, two_thetas>>

textVars == <<lines, text_kind, text_pc, text_result, written>>

xrdmlVars == <<xml, xrdml_pc, xrdml_result>>

dispatchVars == <<path, dispatch_pc, selected>>

bgVars == <<bg_call, bg_intensity, bg_pc, bg_round, bg_mask, background,
            corrected>>

methodVars == <<request, method_pc, invoked, error_lists>>

kaVars == <<ka_call, ka_intensity, ka_pc, ka_round, current_intensity,
            kalpha1, kalpha2>>

thVars == <<th_call, th_pc, th_i, th_threshold, th_peaks>>

fwVars == <<fw_call, fw_pc, fw_half_max, left_2theta, right_2theta, fwhm>>

fpVars == <<fp_call, fp_pc, all_peak_indices, all_properties, detected_set,
            filtered_peaks, filtered_peaks_label>>

dbVars == <<db_patterns, db_call, db_result>>

sgVars == <<sg_len, window_length, sg_pc>>

mwVars == <<mw_heap, current_data, processed_data, mw_detected_peaks,
            peak_match_result, current_ref_pattern, projects,
            current_project, mw_call, mw_ops>>

vars == <<matchVars, rawVars, textVars, xrdmlVars, dispatchVars, bgVars,
          methodVars, kaVars, thVars, fwVars, fpVars, dbVars, sgVars,
          mwVars>>

otherThanMatch == <<rawVars, textVars, xrdmlVars, dispatchVars, bgVars,
                    methodVars, kaVars, thVars, fwVars, fpVars, dbVars,
                    sgVars, mwVars>>
otherThanRaw == <<matchVars, textVars, xrdmlVars, dispatchVars, bgVars,
                  methodVars, kaVars, thVars, fwVars, fpVars, dbVars,
                  sgVars, mwVars>>
otherThanText == <<matchVars, rawVars, xrdmlVars, dispatchVars, bgVars,
                   methodVars, kaVars, thVars, fwVars, fpVars, dbVars,
                   sgVars, mwVars>>
otherThanXrdml == <<matchVars, rawVars, textVars, dispatchVars, bgVars,
                    methodVars, kaVars, thVars, fwVars, fpVars, dbVars,
                    sgVars, mwVars>>
otherThanDispatch == <<matchVars, rawVars, textVars, xrdmlVars, bgVars,
                       methodVars, kaVars, thVars, fwVars, fpVars, dbVars,
                       sgVars, mwVars>>
otherThanBg == <<matchVars, rawVars, textVars, xrdmlVars, dispatchVars,
                 methodVars, kaVars, thVars, fwVars, fpVars, dbVars,
                 sgVars, mwVars>>
otherThanMethod == <<matchVars, rawVars, textVars, xrdmlVars, dispatchVars,
                     bgVars, kaVars, thVars, fwVars, fpVars, dbVars,
                     sgVars, mwVars>>
otherThanKa == <<matchVars, rawVars, textVars, xrdmlVars, dispatchVars,
                 bgVars, methodVars, thVars, fwVars, fpVars, dbVars,
                 sgVars, mwVars>>
otherThanTh == <<matchVars, rawVars, textVars, xrdmlVars, dispatchVars,
                 bgVars, methodVars, kaVars, fwVars, fpVars, dbVars,
                 sgVars, mwVars>>
otherThanFw == <<matchVars, rawVars, textVars, xrdmlVars, dispatchVars,
                 bgVars, methodVars, kaVars, thVars, fpVars, dbVars,
                 sgVars, mwVars>>
otherThanFp == <<matchVars, rawVars, textVars, xrdmlVars, dispatchVars,
                 bgVars, methodVars, kaVars, thVars, fwVars, dbVars,
                 sgVars, mwVars>>
otherThanDb == <<matchVars, rawVars, textVars, xrdmlVars, dispatchVars,
                 bgVars, methodVars, kaVars, thVars, fwVars, fpVars,
                 sgVars, mwVars>>
otherThanSg == <<matchVars, rawVars, textVars, xrdmlVars, dispatchVars,
                 bgVars, methodVars, kaVars, thVars, fwVars, fpVars,
                 dbVars, mwVars>>
otherThanMw == <<matchVars, rawVars, textVars, xrdmlVars, dispatchVars,
                 bgVars, methodVars, kaVars, thVars, fwVars, fpVars,
                 dbVars, sgVars>>

(***************************************************************************)
(* Generic helpers: Python's None / Optional, raise / return, abs.         *)
(***************************************************************************)
None == [some |-> FALSE]
Some(x) == [some |-> TRUE, val |-> x]

Raise(kind) == [raised |-> TRUE, error |-> kind]
Return(x) == [raised |-> FALSE, value |-> x]

Abs(x) == IF x < 0 THEN -x ELSE x

SeqsUpTo(S, n) == UNION {[1..k -> S] : k \in 0..n}

RECURSIVE SeqMax(_)
SeqMax(s) ==
    IF Len(s) = 1 THEN s[1]
    ELSE LET m == SeqMax(Tail(s)) IN IF s[1] >= m THEN s[1] ELSE m

(***************************************************************************)
(* ReferencePattern (reference_pattern.py).                                *)
(* A record `rec` (`data` in the code) is modelled as                      *)
(*   [id, name : STRING, wavelength, pattern, peaks : Optional]            *)
(* where None stands for "key absent".  An MP tuple is a sequence          *)
(* <<amplitude, hkl, two_theta, d_spacing>> (or a shorter one); an ICDD    *)
(* peak is a record [d_spacing, two_theta : Optional, intensity, hkl].     *)
(***************************************************************************)
CuKAlpha1 == 154056   \* 1.54056 Angstrom, in 1e-5 Angstrom

extract_wavelength(rec) ==
    IF rec.wavelength.some THEN rec.wavelength.val ELSE CuKAlpha1

\* a normalization by the first amplitude instead of the largest
NormalizeByFirst(amplitudes) ==
    IF Len(amplitudes) > 0
    THEN LET first == amplitudes[1] IN
         IF first > 0
         THEN [k \in 1..Len(amplitudes) |-> <<amplitudes[k] * 100, first>>]
         ELSE [k \in 1..Len(amplitudes) |-> <<amplitudes[k], 1>>]
    ELSE << >>

\* (intensity / max_int) * 100 as an exact fraction
NormalizeIntensity(amplitudes) ==
    IF Len(amplitudes) > 0
    THEN LET max_int == SeqMax(amplitudes) IN
         IF max_int > 0
         THEN [k \in 1..Len(amplitudes) |-> <<amplitudes[k] * 100, max_int>>]
         ELSE [k \in 1..Len(amplitudes) |-> <<amplitudes[k], 1>>]
    ELSE << >>

\* Bragg's law 2*rad2deg(arcsin(wavelength / (2*d))), tabulated where the
\* floating-point result is exact (1e-5 Angstrom -> tenths of a degree).
BraggTwoTheta(wavelength, d_spacing) ==
    CASE d_spacing = 77028 -> 1800    \* sin(theta) = 1, 2theta = 180 deg

PeakTwoTheta(peak, wavelength) ==
    IF peak.two_theta.some THEN peak.two_theta.val
    ELSE IF peak.d_spacing > 0 /\ wavelength # 0
         THEN BraggTwoTheta(wavelength, peak.d_spacing)
         ELSE 0

IsFullTuple(peak) == Len(peak) >= 4

parse_pattern(rec, wavelength) ==
    IF rec.pattern.some
    THEN LET pattern == rec.pattern.val IN
         IF Len(pattern) > 0
         THEN LET full == SelectSeq(pattern, IsFullTuple) IN
              [two_theta |-> Some([k \in 1..Len(full) |-> full[k][3]]),
               intensity |-> Some(NormalizeIntensity(
                                    [k \in 1..Len(full) |-> full[k][1]])),
               d_spacing |-> Some([k \in 1..Len(full) |-> full[k][4]]),
               hkl       |-> Some([k \in 1..Len(full) |-> full[k][2]])]
         ELSE [two_theta |-> None, intensity |-> None,
               d_spacing |-> None, hkl |-> None]
    ELSE IF rec.peaks.some
    THEN LET peaks == rec.peaks.val
             peak_two_thetas == [k \in 1..Len(peaks) |->
                               PeakTwoTheta(peaks[k], wavelength)]
         IN  [two_theta |-> IF Len(peak_two_thetas) > 0
                            THEN Some(peak_two_thetas) ELSE None,
              intensity |-> Some([k \in 1..Len(peaks) |->
                                    <<peaks[k].intensity, 1>>]),
              d_spacing |-> Some([k \in 1..Len(peaks) |-> peaks[k].d_spacing]),
              hkl       |-> Some([k \in 1..Len(peaks) |-> peaks[k].hkl])]
    ELSE [two_theta |-> None, intensity |-> None,
          d_spacing |-> None, hkl |-> None]

ReferencePattern(rec) ==
    LET id0   == rec.id
        name0 == rec.name
        wl    == extract_wavelength(rec)
        p     == parse_pattern(rec, wl)
    IN  [id         |-> IF id0 = "" /\ name0 # "" THEN name0 ELSE id0,
         name       |-> IF name0 = "" /\ id0 # "" THEN id0 ELSE name0,
         wavelength |-> wl,
         two_theta  |-> p.two_theta,
         intensity  |-> p.intensity,
         d_spacing  |-> p.d_spacing,
         hkl        |-> p.hkl]

(***************************************************************************)
(* match_peaks_with_reference (peak_detection.py).                         *)
(* A detected peak is identified by its position in detected_peaks (the    *)
(* code compares DetectedPeak objects by identity); detected_peaks[k] is   *)
(* its two_theta.  A pair of matched_peaks is                              *)
(*   <<k, <<i, ref_tt, ref_intensity>>>>.                                  *)
(***************************************************************************)
\* line 374: reference_pattern.two_theta is None
TwoThetaIsNone(ref) == ~ref.two_theta.some

\* line 391: `if i in matched_ref_indices: continue`
AlwaysAvailable(i, matched) == TRUE
IsAvailable(i, matched) == i \notin matched

\* line 395: `if distance < best_distance`
CloserOrEqual(distance, best_distance) == distance <= best_distance
Closer(distance, best_distance) == distance < best_distance

\* line 397: reference_pattern.intensity[i] if intensity is not None else 0
RefIntensity(ref, i) ==
    IF ref.intensity.some THEN ref.intensity.val[i] ELSE <<0, 1>>

\* lines 387-397: the inner loop over enumerate(reference_pattern.two_theta),
\* from reference index i on, carrying best_match and best_distance
RECURSIVE ScanReference(_, _, _, _, _, _)
ScanReference(det_tt, ref, matched, i, best_match, best_distance) ==
    IF i > Len(ref.two_theta.val) THEN best_match
    ELSE IF ~IsAvailable(i, matched)
         THEN ScanReference(det_tt, ref, matched, i + 1,
                            best_match, best_distance)
         ELSE LET ref_tt   == ref.two_theta.val[i]
                  distance == Abs(det_tt - ref_tt)
              IN  IF Closer(distance, best_distance)
                  THEN ScanReference(det_tt, ref, matched, i + 1,
                                     Some(<<i, ref_tt, RefIntensity(ref, i)>>),
                                     distance)
                  ELSE ScanReference(det_tt, ref, matched, i + 1,
                                     best_match, best_distance)

FindBestMatch(det_tt, ref, matched, tol) ==
    ScanReference(det_tt, ref, matched, 1, None, tol)

\* lines 412-414: match_score
UnguardedScore(matched_count, total_ref_peaks) ==
    IF total_ref_peaks = 0 THEN Raise("ZeroDivisionError")
    ELSE Return(<<matched_count * 100, total_ref_peaks>>)
MatchScore(matched_count, total_ref_peaks) ==
    IF total_ref_peaks > 0
    THEN Return(<<matched_count * 100, total_ref_peaks>>)
    ELSE Return(<<0, 1>>)

\* lines 404-405: detected peaks that are the first member of no pair
UnmatchedDetected(det, pairs) ==
    LET paired == {pairs[p][1] : p \in 1..Len(pairs)}
        RECURSIVE Keep(_)
        Keep(k) == IF k > Len(det) THEN << >>
                   ELSE IF k \in paired THEN Keep(k + 1)
                        ELSE <<k>> \o Keep(k + 1)
    IN  Keep(1)

\* lines 407-410: set(range(len(two_theta))) - matched_ref_indices, listed
\* with angle and intensity; a set of small ints iterates in ascending order
UnmatchedReference(ref, matched) ==
    LET RECURSIVE Keep(_)
        Keep(i) == IF i > Len(ref.two_theta.val) THEN << >>
                   ELSE IF i \in matched THEN Keep(i + 1)
                        ELSE <<<<ref.two_theta.val[i], RefIntensity(ref, i)>>>>
                             \o Keep(i + 1)
    IN  Keep(1)

\* lines 374-383: the early return for a pattern without two_theta, else the
\* loop state is set up
MatchEnter ==
    /\ match_pc = "start"
    /\ IF TwoThetaIsNone(reference_pattern)
       THEN /\ match_result' = Some([matched_peaks       |-> << >>,
                                     unmatched_detected  |->
                                        [k \in 1..Len(detected_peaks) |-> k],
                                     unmatched_reference |-> << >>,
                                     match_score         |-> <<0, 1>>])
            /\ match_pc' = "done"
       ELSE /\ match_pc' = "loop"
            /\ UNCHANGED match_result
    /\ UNCHANGED <<detected_peaks, reference_data, reference_pattern,
                   tolerance, det_pos, matched_peaks, matched_ref_indices>>
    /\ UNCHANGED otherThanMatch

\* lines 386-401: one iteration of `for det_peak in detected_peaks`
MatchDetected ==
    /\ match_pc = "loop"
    /\ det_pos <= Len(detected_peaks)
    /\ IF TwoThetaIsNone(reference_pattern)
       THEN \* enumerate(None)
            /\ match_pc' = "TypeError"
            /\ UNCHANGED <<det_pos, matched_peaks, matched_ref_indices>>
       ELSE LET best_match == FindBestMatch(detected_peaks[det_pos],
                                            reference_pattern,
                                            matched_ref_indices, tolerance)
            IN  /\ IF best_match.some
                   THEN /\ matched_peaks' =
                             Append(matched_peaks, <<det_pos, best_match.val>>)
                        /\ matched_ref_indices' =
                             matched_ref_indices \cup {best_match.val[1]}
                   ELSE UNCHANGED <<matched_peaks, matched_ref_indices>>
                /\ det_pos' = det_pos + 1
                /\ UNCHANGED match_pc
    /\ UNCHANGED <<detected_peaks, reference_data, reference_pattern,
                   tolerance, match_result>>
    /\ UNCHANGED otherThanMatch

\* lines 403-421: unmatched lists, score and the returned dictionary
MatchFinish ==
    /\ match_pc = "loop"
    /\ det_pos > Len(detected_peaks)
    /\ IF TwoThetaIsNone(reference_pattern)
       THEN \* len(None)
            /\ match_pc' = "TypeError"
            /\ UNCHANGED match_result
       ELSE LET total_ref_peaks == Len(reference_pattern.two_theta.val)
                score == MatchScore(Len(matched_peaks), total_ref_peaks)
            IN  IF score.raised
                THEN /\ match_pc' = score.error
                     /\ UNCHANGED match_result
                ELSE /\ match_result' =
                          Some([matched_peaks       |-> matched_peaks,
                                unmatched_detected  |->
                                   UnmatchedDetected(detected_peaks,
                                                     matched_peaks),
                                unmatched_reference |->
                                   UnmatchedReference(reference_pattern,
                                                      matched_ref_indices),
                                match_score         |-> score.value])
                     /\ match_pc' = "done"
    /\ UNCHANGED <<detected_peaks, reference_data, reference_pattern,
                   tolerance, det_pos, matched_peaks, matched_ref_indices>>
    /\ UNCHANGED otherThanMatch

(***************************************************************************)
(* Inputs of the matcher.                                                  *)
(***************************************************************************)
AngleSet == 0..MaxAngle
Tolerances == {1, 2}   \* 0.1 and the default 0.2 degrees
Amplitudes == {1, 2}

MPTuples == {<<a, "hkl", tt, 0>> : a \in Amplitudes, tt \in AngleSet}
            \cup {<<1, "hkl">>}

ICDDPeaks == {[d_spacing |-> 0, two_theta |-> Some(tt),
               intensity |-> 50, hkl |-> "hkl"] : tt \in AngleSet}
             \cup {[d_spacing |-> 0, two_theta |-> None,
                    intensity |-> 50, hkl |-> "hkl"]}

ReferenceRecords ==
    {[id |-> "ref", name |-> "", wavelength |-> None,
      pattern |-> Some(p), peaks |-> None] : p \in SeqsUpTo(MPTuples, MaxRef)}
    \cup
    {[id |-> "ref", name |-> "", wavelength |-> None,
      pattern |-> None, peaks |-> Some(p)] : p \in SeqsUpTo(ICDDPeaks, MaxRef)}
    \cup
    {[id |-> "ref", name |-> "", wavelength |-> None,
      pattern |-> None, peaks |-> None]}

MatchIdle ==
    /\ detected_peaks = << >>
    /\ reference_data = None
    /\ reference_pattern = None
    /\ tolerance = 0
    /\ match_pc = "idle"
    /\ det_pos = 1
    /\ matched_peaks = << >>
    /\ matched_ref_indices = {}
    /\ match_result = None

MatchInit ==
    /\ detected_peaks \in SeqsUpTo(AngleSet, MaxDetected)
    /\ reference_data \in ReferenceRecords
    /\ reference_pattern = ReferencePattern(reference_data)
    /\ tolerance \in Tolerances
    /\ match_pc = "start"
    /\ det_pos = 1
    /\ matched_peaks = << >>
    /\ matched_ref_indices = {}
    /\ match_result = None

(***************************************************************************)
(* RAWParser.parse (file_parser.py).                                       *)
(* `data` is the content of the file, a sequence of bytes 0..255; byte     *)
(* offsets are 0-based as in the code.  A 32-bit little-endian word is     *)
(* kept as [hi, lo]: hi is bit 31 and lo the low 31 bits, so that the      *)
(* unsigned value is hi * 2^31 + lo and, read as a float32, hi is the sign *)
(* and lo the magnitude bits (exponent and mantissa), whose integer order  *)
(* is the order of the absolute values.                                    *)
(* Angles are integers in 1/6400 degree (0.02 degrees = 128, 1/64 degree   *)
(* = 100); step is a fraction <<n, d>> of that unit.                       *)
(***************************************************************************)
MinCount == 100            \* 100 <= count
MaxCount == 100000         \* count <= 100000
ScanLimit == 10000         \* min(10000, file_size - 4)
MinHeader == 100           \* offset >= 100
ProbeBytes == 400          \* min(100 * 4, ...)
MaxFallbackHeader == 4096  \* min(4096, file_size // 4)

BitsInf == 2139095040      \* 0x7F800000, magnitude bits of +-inf
Bits1e10 == 1343554297     \* 0x501502F9, float32 1e10 (exactly 1e10)
Bits4 == 1082130432        \* 0x40800000, 4.0
Bits10 == 1092616192       \* 0x41200000, 10.0
Bits80 == 1117782016       \* 0x42A00000, 80.0
Bits100 == 1120403456      \* 0x42C80000, 100.0
BitsStepMin == 1008981771  \* 0x3C23D70B, the least float32 >= 0.01
BitsStepMax == 1036831948  \* 0x3DCCCCCC, the greatest float32 <= 0.1

DefaultStart == 32000      \* 5.0 degrees
DefaultStep == 128         \* 0.02 degrees
Deg4 == 25600
Deg5 == 32000
Deg6 == 38400
Deg90 == 576000
Deg120 == 768000
StepMin == 32              \* 0.005 degrees
StepMax == 640             \* 0.1 degrees

Min(a, b) == IF a <= b THEN a ELSE b
SetMin(S) == CHOOSE x \in S : \A y \in S : x <= y

RECURSIVE Pow2(_)
Pow2(n) == IF n = 0 THEN 1 ELSE 2 * Pow2(n - 1)

\* struct.unpack_from('<I' / '<f', data, off): the four bytes at off
WordAt(bytes, off) ==
    [hi |-> bytes[off + 4] \div 128,
     lo |-> (bytes[off + 4] % 128) * 16777216 + bytes[off + 3] * 65536
            + bytes[off + 2] * 256 + bytes[off + 1]]

\* np.frombuffer(data[from : from + 4 * n], dtype='<f4')
WordsAt(bytes, from, n) == [k \in 1..n |-> WordAt(bytes, from + 4 * (k - 1))]

\* 100 <= count <= 100000 for the unsigned reading
InCountRange(w) == w.hi = 0 /\ MinCount <= w.lo /\ w.lo <= MaxCount

\* float32 reading
IsNaN(w) == w.lo > BitsInf
IsFinite(w) == w.lo < BitsInf
IsPositive(w) == w.hi = 0 /\ w.lo > 0 /\ ~IsNaN(w)
Below1e10(w) == ~IsNaN(w) /\ (w.hi = 1 \/ w.lo < Bits1e10)
InRange(w, lowBits, highBits) ==
    w.hi = 0 /\ lowBits <= w.lo /\ w.lo <= highBits
IsStartAngle(w) == InRange(w, Bits4, Bits10)          \* 4.0 <= val <= 10.0
IsEndAngle(w) == InRange(w, Bits80, Bits100)          \* 80.0 <= val <= 100.0
IsStepSize(w) == InRange(w, BitsStepMin, BitsStepMax) \* 0.01 <= val <= 0.1

\* The value of a positive float32 in 1/64: (2^23 + mantissa) * 2^(e - 150)
\* times 64.  Exact for the header values the model writes (multiples of
\* 1/64 below 2^17); other values are rounded down.
In64ths(w) ==
    LET e == w.lo \div 8388608
        m == w.lo % 8388608
    IN  IF e > 144 THEN (8388608 + m) * Pow2(e - 144)
        ELSE IF e < 121 THEN 0
        ELSE (8388608 + m) \div Pow2(144 - e)

\* lines 270-274, 320-323, 357-360: the plausibility test of test_data
LooksValid(bytes, from, nbytes) ==
    LET test_data == WordsAt(bytes, from, nbytes \div 4)
        idx == 1..Len(test_data)
    IN  /\ Len(test_data) > 0
        /\ \E k \in idx : IsPositive(test_data[k])
        /\ \A k \in idx : IsFinite(test_data[k])
        /\ \A k \in idx : Below1e10(test_data[k])

\* line 392: valid_mask
IsValid(w) == IsFinite(w) /\ Below1e10(w)

\* range(0, min(10000, file_size - 4), 4)
ScanOffsets(file_size) ==
    {o \in 0..(Min(ScanLimit, file_size - 4) - 1) : o % 4 = 0}

\* lines 260, 277, 341: the data starts right after the count field
DataStartAtCount(offset) == offset
DataStartAfterCount(offset) == offset + 4

\* lines 253-278: the count at `offset` is accepted
CountFits(bytes, offset) ==
    LET file_size == Len(bytes)
        w == WordAt(bytes, offset)
        expected_data_size == w.lo * 4
    IN  /\ InCountRange(w)
        /\ \/ offset + 4 + expected_data_size = file_size
           \/ /\ offset >= MinHeader
              /\ offset + 4 + expected_data_size <= file_size
              /\ LooksValid(bytes, offset + 4,
                            Min(ProbeBytes, expected_data_size))

\* lines 249-280: <<data_count, data_offset>>
Method1(bytes) ==
    LET hits == {o \in ScanOffsets(Len(bytes)) : CountFits(bytes, o)} IN
    IF hits = {} THEN <<None, None>>
    ELSE LET offset == SetMin(hits) IN
         <<Some(WordAt(bytes, offset).lo), Some(DataStartAfterCount(offset))>>

\* lines 289-302: the first scanned value satisfying Test, in 1/64
FirstValue(bytes, hits) ==
    IF hits = {} THEN None
    ELSE Some(In64ths(WordAt(bytes, SetMin(hits))))

StartAngleOffsets(bytes) ==
    {o \in ScanOffsets(Len(bytes)) : IsStartAngle(WordAt(bytes, o))}
EndAngleOffsets(bytes) ==
    {o \in ScanOffsets(Len(bytes)) : IsEndAngle(WordAt(bytes, o))}
StepSizeOffsets(bytes) ==
    {o \in ScanOffsets(Len(bytes)) : IsStepSize(WordAt(bytes, o))}

Method2HeaderSizes == <<3238, 2048, 4096, 1024, 512, 256, 128>>
Method3HeaderSizes == <<3238, 2048, 4096, 1024, 512, 256>>

\* lines 313-325: the first header size whose data passes the test
RECURSIVE ProbeHeaders(_, _, _, _)
ProbeHeaders(bytes, count, sizes, k) ==
    IF k > Len(sizes) THEN None
    ELSE LET header_size == sizes[k] IN
         IF /\ header_size + count * 4 <= Len(bytes)
            /\ LooksValid(bytes, header_size, Min(ProbeBytes, count * 4))
         THEN Some(header_size)
         ELSE ProbeHeaders(bytes, count, sizes, k + 1)

\* lines 349-363: the first header size whose implied count is in range and
\* whose data passes the test: <<data_count, data_offset>>
RECURSIVE GuessHeaders(_, _, _)
GuessHeaders(bytes, sizes, k) ==
    IF k > Len(sizes) THEN <<None, None>>
    ELSE LET header_size == sizes[k]
             potential_count == (Len(bytes) - header_size) \div 4
         IN  IF /\ MinCount <= potential_count
                /\ potential_count <= MaxCount
                /\ LooksValid(bytes, header_size,
                              Min(ProbeBytes, potential_count * 4))
             THEN <<Some(potential_count), Some(header_size)>>
             ELSE GuessHeaders(bytes, sizes, k + 1)

\* lines 330-343: the count field right after a header of file_size % 4 bytes
RemainderCount(bytes) ==
    LET file_size == Len(bytes)
        header_size == file_size % 4
    IN  IF header_size > 0 /\ header_size + 4 <= file_size
        THEN LET w == WordAt(bytes, header_size) IN
             IF /\ InCountRange(w)
                /\ header_size + 4 + w.lo * 4 = file_size
             THEN <<Some(w.lo), Some(DataStartAfterCount(header_size))>>
             ELSE <<None, None>>
        ELSE <<None, None>>

\* int((end_angle - start_angle) / step) + 1
CountFromAngles(start, end, stp) == (((end - start) * stp[2]) \div stp[1]) + 1

RawMethod1 ==
    /\ raw_pc = "method1"
    /\ LET r == Method1(data) IN
       /\ data_count' = r[1]
       /\ data_offset' = r[2]
    /\ raw_pc' = "method2"
    /\ UNCHANGED <<data, start_angle, end_angle, step, intensities,
                   two_thetas>>
    /\ UNCHANGED otherThanRaw

\* lines 282-325
RawMethod2 ==
    /\ raw_pc = "method2"
    /\ IF ~data_count.some
       THEN LET found_start == FirstValue(data, StartAngleOffsets(data))
                found_end   == FirstValue(data, EndAngleOffsets(data))
                found_step  == FirstValue(data, StepSizeOffsets(data))
            IN  IF found_start.some /\ found_end.some /\ found_step.some
                THEN LET s == found_start.val * 100
                         e == found_end.val * 100
                         t == <<found_step.val * 100, 1>>
                         count == CountFromAngles(s, e, t)
                     IN  /\ start_angle' = Some(s)
                         /\ end_angle' = Some(e)
                         /\ step' = Some(t)
                         /\ data_count' = Some(count)
                         /\ data_offset' =
                               ProbeHeaders(data, count, Method2HeaderSizes, 1)
                ELSE UNCHANGED <<start_angle, end_angle, step, data_count,
                                 data_offset>>
       ELSE UNCHANGED <<start_angle, end_angle, step, data_count, data_offset>>
    /\ raw_pc' = "method3"
    /\ UNCHANGED <<data, intensities, two_thetas>>
    /\ UNCHANGED otherThanRaw

\* lines 327-363
RawMethod3 ==
    /\ raw_pc = "method3"
    /\ IF ~data_count.some \/ ~data_offset.some
       THEN LET r == RemainderCount(data)
                count1 == IF r[1].some THEN r[1] ELSE data_count
                offset1 == IF r[1].some THEN r[2] ELSE data_offset
            IN  IF ~count1.some
                THEN LET g == GuessHeaders(data, Method3HeaderSizes, 1) IN
                     /\ data_count' = g[1]
                     /\ data_offset' = IF g[1].some THEN g[2] ELSE offset1
                ELSE /\ data_count' = count1
                     /\ data_offset' = offset1
       ELSE UNCHANGED <<data_count, data_offset>>
    /\ raw_pc' = "method4"
    /\ UNCHANGED <<data, start_angle, end_angle, step, intensities,
                   two_thetas>>
    /\ UNCHANGED otherThanRaw

\* lines 365-372
RawMethod4 ==
    /\ raw_pc = "method4"
    /\ IF ~data_count.some
       THEN LET file_size == Len(data)
                estimated_header == Min(MaxFallbackHeader, file_size \div 4)
                count == (file_size - estimated_header) \div 4
            IN  /\ data_count' = Some(count)
                /\ data_offset' = Some(estimated_header)
                /\ raw_pc' = IF count < MinCount THEN "ValueError" ELSE "read"
       ELSE /\ UNCHANGED <<data_count, data_offset>>
            /\ raw_pc' = "read"
    /\ UNCHANGED <<data, start_angle, end_angle, step, intensities,
                   two_thetas>>
    /\ UNCHANGED otherThanRaw

\* lines 374-388: default angles, the bounds check and the read; adding
\* data_count * 4 to a data_offset that is None is a TypeError
RawRead ==
    /\ raw_pc = "read"
    /\ start_angle' = IF start_angle.some THEN start_angle
                      ELSE Some(DefaultStart)
    /\ step' = IF step.some THEN step ELSE Some(<<DefaultStep, 1>>)
    /\ IF ~data_offset.some
       THEN /\ raw_pc' = "TypeError"
            /\ UNCHANGED intensities
       ELSE IF data_offset.val + data_count.val * 4 > Len(data)
       THEN /\ raw_pc' = "ValueError"
            /\ UNCHANGED intensities
       ELSE /\ intensities' = WordsAt(data, data_offset.val, data_count.val)
            /\ raw_pc' = "filter"
    /\ UNCHANGED <<data, data_count, data_offset, end_angle, two_thetas>>
    /\ UNCHANGED otherThanRaw

\* lines 390-397: invalid values are dropped when some value is valid
FilterValid(values) ==
    LET valid == {k \in 1..Len(values) : IsValid(values[k])} IN
    IF valid # {} /\ valid # 1..Len(values)
    THEN SelectSeq(values, IsValid)
    ELSE values

RawFilter ==
    /\ raw_pc = "filter"
    /\ intensities' = FilterValid(intensities)
    /\ data_count' = IF Len(intensities') # Len(intensities)
                     THEN Some(Len(intensities')) ELSE data_count
    /\ raw_pc' = "angles"
    /\ UNCHANGED <<data, data_offset, start_angle, end_angle, step,
                   two_thetas>>
    /\ UNCHANGED otherThanRaw

\* lines 423-467: the end angle recomputed from count and step, with the
\* 5-90 degree inference: [step, end_angle]
RecomputedRange(start, stp, n) ==
    LET calculated_end == start + ((n - 1) * stp[1]) \div stp[2]
        span == Deg90 - start
    IN  IF /\ calculated_end > Deg120
           /\ Deg4 <= start /\ start <= Deg6
           /\ StepMin * (n - 1) <= span
           /\ span <= StepMax * (n - 1)
        THEN [step |-> <<span, n - 1>>, end_angle |-> Deg90]
        ELSE [step |-> stp, end_angle |-> Min(calculated_end, Deg120)]

\* lines 408-421: the header's end angle is kept when it is consistent
HeaderEndIsValid(start, end, stp, n) ==
    LET calculated_end == start + ((n - 1) * stp[1]) \div stp[2]
        expected_count == CountFromAngles(start, end, stp)
    IN  /\ Abs(expected_count - n) <= 1
        /\ Deg5 <= end /\ end <= Deg120
        /\ Abs(calculated_end - end) < Deg5

\* lines 399-489: np.linspace(start_angle, end_angle, data_count) is kept as
\* [start, stop, num]; its length is num
RawAngles ==
    /\ raw_pc = "angles"
    /\ IF data_count.val > 0
       THEN LET n == data_count.val
                start == start_angle.val
                r == IF end_angle.some /\ end_angle.val # 0
                        /\ HeaderEndIsValid(start, end_angle.val, step.val, n)
                     THEN [step |-> step.val, end_angle |-> end_angle.val]
                     ELSE RecomputedRange(start, step.val, n)
            IN  /\ step' = Some(r.step)
                /\ end_angle' = Some(r.end_angle)
                /\ two_thetas' = Some([start |-> start, stop |-> r.end_angle,
                                       num |-> n])
                /\ raw_pc' = "done"
       ELSE /\ raw_pc' = "ValueError"
            /\ UNCHANGED <<step, end_angle, two_thetas>>
    /\ UNCHANGED <<data, data_count, data_offset, start_angle, intensities>>
    /\ UNCHANGED otherThanRaw

(***************************************************************************)
(* Inputs of RAWParser: files written the way the layouts of the four      *)
(* strategies expect them, and truncated or implausible variants.          *)
(***************************************************************************)
FZero == <<0, 0, 0, 0>>          \* 0.0
FOne == <<0, 0, 128, 63>>        \* 1.0
FMinusOne == <<0, 0, 128, 191>>  \* -1.0
FNaN == <<0, 0, 192, 127>>       \* NaN
FInf == <<0, 0, 128, 127>>       \* +inf
FHuge == <<249, 2, 21, 80>>      \* 1e10
FStart == <<0, 0, 32, 65>>       \* 10.0
FEnd == <<0, 0, 160, 66>>        \* 80.0
FStep == <<0, 0, 192, 61>>       \* 0.09375 = 6/64

DataValues == {FZero, FOne, FMinusOne, FNaN, FHuge}

\* the data section: a pattern of values repeated over n words
PatternsOf(values) == UNION {[1..k -> values] : k \in 1..MaxPattern}
DataPatterns == PatternsOf(DataValues)
Repeat(pat, n) == [k \in 1..n |-> pat[((k - 1) % Len(pat)) + 1]]

\* struct.pack('<I', n) for n < 2^24
CountWord(n) == <<n % 256, (n \div 256) % 256, (n \div 65536) % 256, 0>>

BytesOf(words) ==
    [i \in 1..(4 * Len(words)) |-> words[((i - 1) \div 4) + 1][((i - 1) % 4) + 1]]

Counts == MinCount..(MinCount + MaxExtra)

\* count, then count values
CountPrefixed(n, pat) == BytesOf(<<CountWord(n)>> \o Repeat(pat, n))

\* a zero header of `h` words, count, count values, `t` more words
HeaderThenCount(h, n, pat, t) ==
    BytesOf(Repeat(<<FZero>>, h) \o <<CountWord(n)>> \o Repeat(pat, n + t))

\* a header of `h` words holding start, end and step, then `n` values
AngleHeader(h, n, pat) ==
    BytesOf(<<FStart, FEnd, FStep>> \o Repeat(<<FZero>>, h - 3)
            \o Repeat(pat, n))

\* `r` odd bytes, count, count values
OddHeader(r, n, pat) == [i \in 1..r |-> 0] \o CountPrefixed(n, pat)

\* a zero header of `h` words and `n` values without a count field
PlainHeader(h, n, pat) == BytesOf(Repeat(<<FZero>>, h) \o Repeat(pat, n))

AngleCount == 747          \* int((80 - 10) / 0.09375) + 1

RawFiles ==
    {CountPrefixed(n, p) : n \in Counts, p \in PatternsOf(DataValues \cup {FInf})}
    \cup {HeaderThenCount(25, n, p, t) :
             n \in Counts, p \in DataPatterns, t \in {0, 1}}
    \cup {AngleHeader(32, n, p) :
             n \in {1, AngleCount - 1, AngleCount}, p \in DataPatterns}
    \cup {OddHeader(r, n, p) : r \in 1..3, n \in Counts, p \in DataPatterns}
    \cup {PlainHeader(h, n, p) :
             h \in {0, 64}, n \in Counts \cup {0, 4, 133, 134, 150},
             p \in DataPatterns}

RawIdle ==
    /\ data = << >>
    /\ raw_pc = "idle"
    /\ data_count = None
    /\ data_offset = None
    /\ start_angle = None
    /\ end_angle = None
    /\ step = None
    /\ intensities = << >>
    /\ two_thetas = None

\* lines 239-247
RawInit ==
    /\ data \in RawFiles
    /\ raw_pc = "method1"
    /\ data_count = None
    /\ data_offset = None
    /\ start_angle = None
    /\ end_angle = None
    /\ step = None
    /\ intensities = << >>
    /\ two_thetas = None

(***************************************************************************)
(* DATParser, ASCParser, TXTParser (file_parser.py).                       *)
(* A file is a sequence of lines, a line a sequence of one-character       *)
(* strings (without the line terminator, which strip() removes and the     *)
(* header pattern does not need).  A parsed number is the decimal          *)
(* [neg, mant, exp10], standing for (-1)^neg * mant / 10^exp10.            *)
(***************************************************************************)
Digits == {"0", "1", "5"}
Whitespace == {" ", "\t"}
HeaderScanLines == 10      \* lines[:10]

DigitValue(c) == CASE c = "0" -> 0 [] c = "1" -> 1 [] c = "5" -> 5

RECURSIVE DigitsValue(_)
DigitsValue(ds) ==
    IF ds = << >> THEN 0
    ELSE 10 * DigitsValue(SubSeq(ds, 1, Len(ds) - 1)) + DigitValue(ds[Len(ds)])

RECURSIVE Pow10(_)
Pow10(n) == IF n = 0 THEN 1 ELSE 10 * Pow10(n - 1)

NumEq(a, b) ==
    /\ a.mant * Pow10(b.exp10) = b.mant * Pow10(a.exp10)
    /\ a.mant # 0 => a.neg = b.neg

\* float(token) for tokens of sign, digits and '.': None is ValueError
ParseFloat(tok) ==
    LET signed == tok # << >> /\ tok[1] \in {"-", "+"}
        body   == IF signed THEN Tail(tok) ELSE tok
        dots   == {k \in 1..Len(body) : body[k] = "."}
        dot    == IF dots = {} THEN Len(body) + 1
                  ELSE CHOOSE k \in dots : TRUE
        digits == SelectSeq(body, LAMBDA c : c # ".")
    IN  IF /\ \A k \in 1..Len(body) : body[k] \in Digits \cup {"."}
           /\ Cardinality(dots) <= 1
           /\ digits # << >>
        THEN Some([neg   |-> signed /\ tok[1] = "-",
                   mant  |-> DigitsValue(digits),
                   exp10 |-> IF dots = {} THEN 0 ELSE Len(body) - dot])
        ELSE None

\* line.strip()
RECURSIVE StripLeft(_)
StripLeft(s) ==
    IF s # << >> /\ s[1] \in Whitespace THEN StripLeft(Tail(s)) ELSE s
RECURSIVE StripRight(_)
StripRight(s) ==
    IF s # << >> /\ s[Len(s)] \in Whitespace
    THEN StripRight(SubSeq(s, 1, Len(s) - 1)) ELSE s
Strip(s) == StripRight(StripLeft(s))

\* re.split(r'[<delims>]+', line): the pieces between runs of delimiters, an
\* empty piece where the line starts or ends with a delimiter
RECURSIVE SplitFrom(_, _, _, _, _)
SplitFrom(s, delims, i, cur, inRun) ==
    IF i > Len(s) THEN <<cur>>
    ELSE IF s[i] \in delims
         THEN IF inRun THEN SplitFrom(s, delims, i + 1, cur, TRUE)
              ELSE <<cur>> \o SplitFrom(s, delims, i + 1, << >>, TRUE)
         ELSE SplitFrom(s, delims, i + 1, Append(cur, s[i]), FALSE)
Split(s, delims) == SplitFrom(s, delims, 1, << >>, FALSE)

DATDelims == {" ", "\t", ","}            \* [\s\t,]+
ASCDelims == {" ", "\t", ",", ";"}       \* [\s\t,;]+
TXTDelims == {" ", "\t", ",", ";", "|"}  \* [\s\t,;|]+

DelimsOf(kind) ==
    CASE kind = "DAT" -> DATDelims
      [] kind = "ASC" -> ASCDelims
      [] kind = "TXT" -> TXTDelims

\* lines 115, 199: `line.startswith('#')`; ASCParser has no comment rule
SkipsComments(kind) == kind \in {"DAT", "TXT"}

\* the pair of a line: None when the line is skipped
LinePair(line, kind) ==
    LET stripped == Strip(line) IN
    IF stripped = << >> \/ (SkipsComments(kind) /\ stripped[1] = "#")
    THEN None
    ELSE LET parts == Split(stripped, DelimsOf(kind)) IN
         IF Len(parts) >= 2
         THEN LET two_theta == ParseFloat(parts[1])
                  intensity == ParseFloat(parts[2])
              IN  IF two_theta.some /\ intensity.some
                  THEN Some(<<two_theta.val, intensity.val>>)
                  ELSE None
         ELSE None

\* the index of the first element of s at or after i that is not in class
RECURSIVE SkipClass(_, _, _)
SkipClass(s, class, i) ==
    IF i <= Len(s) /\ s[i] \in class THEN SkipClass(s, class, i + 1) ELSE i

\* re.match(r'^\s*[\d\.]+\s+[\d\.]', line)
HeaderPatternMatches(line) ==
    LET numeric == Digits \cup {"."}
        i == SkipClass(line, Whitespace, 1)
        j == SkipClass(line, numeric, i)
        k == SkipClass(line, Whitespace, j)
    IN  j > i /\ k > j /\ k <= Len(line) /\ line[k] \in numeric

\* lines 190-195: the 0-based index of the first of the first ten lines that
\* matches the pattern, 0 when none does
DetectStart(file) ==
    LET hits == {i \in 0..(Min(HeaderScanLines, Len(file)) - 1) :
                    HeaderPatternMatches(file[i + 1])}
    IN  IF hits = {} THEN 0 ELSE SetMin(hits)

\* the pairs of the lines from start_idx on, in order
RECURSIVE CollectPairs(_, _, _)
CollectPairs(file, kind, i) ==
    IF i > Len(file) THEN << >>
    ELSE LET p == LinePair(file[i], kind) IN
         (IF p.some THEN <<p.val>> ELSE << >>)
         \o CollectPairs(file, kind, i + 1)

ParseText(file, kind) ==
    LET start_idx == IF kind = "TXT" THEN DetectStart(file) ELSE 0
        pairs == CollectPairs(file, kind, start_idx + 1)
    IN  IF pairs = << >> THEN Raise("ValueError")
        ELSE Return([two_theta |-> [k \in 1..Len(pairs) |-> pairs[k][1]],
                     intensity |-> [k \in 1..Len(pairs) |-> pairs[k][2]]])

TextParse(kind) ==
    /\ text_pc = "start"
    /\ text_kind = kind
    /\ LET r == ParseText(lines, kind) IN
       IF r.raised
       THEN /\ text_pc' = r.error
            /\ UNCHANGED text_result
       ELSE /\ text_pc' = "done"
            /\ text_result' = Some(r.value)
    /\ UNCHANGED <<lines, text_kind, written>>
    /\ UNCHANGED otherThanText

\* lines 107-138
DATParse == TextParse("DAT")
\* lines 145-175
ASCParse == TextParse("ASC")
\* lines 182-221
TXTParse == TextParse("TXT")

(***************************************************************************)
(* Inputs of the text parsers.                                             *)
(***************************************************************************)
TextKinds == {"DAT", "ASC", "TXT"}

\* the numbers a file is written from, in tenths: 0.5, -5.0 ...
WrittenValues == {5, -50}
Decimal(v) == [neg |-> v < 0, mant |-> Abs(v), exp10 |-> 1]

DigitChar(d) == CASE d = 0 -> "0" [] d = 1 -> "1" [] d = 5 -> "5"

\* '%.1f' % (v / 10) for |v| < 100
FormatValue(v) ==
    (IF v < 0 THEN <<"-">> ELSE << >>)
    \o <<DigitChar(Abs(v) \div 10), ".", DigitChar(Abs(v) % 10)>>

WriteLine(pair, delim) == FormatValue(pair[1]) \o <<delim>> \o FormatValue(pair[2])
WriteFile(pairs, delim) == [k \in 1..Len(pairs) |-> WriteLine(pairs[k], delim)]

WrittenPairs == WrittenValues \X WrittenValues

OtherLines ==
    {<< >>,                                    \* blank
     <<"#", " ", "0", ".", "5", " ", "0", ".", "5">>,   \* comment
     <<"a", " ", "b">>,                        \* text
     <<"0", ".", "5">>,                        \* one column
     <<",", "0", ".", "5", ",", "0", ".", "5">>,        \* leading delimiter
     <<" ", "0", ".", "5", "\t", "1", "5", " ", "a">>}  \* padded, 3 columns

TextLines ==
    {WriteLine(<<5, v>>, d) : v \in WrittenValues, d \in TXTDelims \ {"\t"}}
    \cup OtherLines

TextIdle ==
    /\ lines = << >>
    /\ text_kind = "none"
    /\ text_pc = "idle"
    /\ text_result = None
    /\ written = None

\* any file of up to MaxLines lines
TextInit ==
    /\ lines \in SeqsUpTo(TextLines, MaxLines)
    /\ text_kind \in TextKinds
    /\ text_pc = "start"
    /\ text_result = None
    /\ written = None

\* a file written from at least one pair with a delimiter the parser accepts
RoundTripInit ==
    /\ text_kind \in TextKinds
    /\ \E pairs \in SeqsUpTo(WrittenPairs, MaxLines) \ {<< >>} :
       \E delim \in DelimsOf(text_kind) :
          /\ written = Some([pairs |-> pairs, delim |-> delim])
          /\ lines = WriteFile(pairs, delim)
    /\ text_pc = "start"
    /\ text_result = None

(***************************************************************************)
(* XRDMLParser.parse (file_parser.py lines 39-101).                        *)
(* A document is what the parser's three queries see of it: whether it is  *)
(* well-formed XML, the kAlpha1 element, the listPositions elements under  *)
(* a positions element and the counts elements, in document order.  An     *)
(* element records whether it sits under scan/dataPoints and its text as   *)
(* split() yields it, a sequence of tokens.                                *)
(***************************************************************************)
\* the tokens of the texts of elems, concatenated in document order
RECURSIVE ExtendAll(_)
ExtendAll(elems) ==
    IF elems = << >> THEN << >> ELSE elems[1].text \o ExtendAll(Tail(elems))

InScan(elems) == SelectSeq(elems, LAMBDA e : e.in_scan)

AllParse(tokens) == \A k \in 1..Len(tokens) : ParseFloat(tokens[k]).some
Floats(tokens) == [k \in 1..Len(tokens) |-> ParseFloat(tokens[k]).val]

ParseXRDML(doc) ==
    LET scan_points      == InScan(doc.positions)
        intensity_points == InScan(doc.counts)
        primary          == scan_points # << >> /\ intensity_points # << >>
        tt1  == IF primary THEN ExtendAll(scan_points) ELSE << >>
        in1  == IF primary THEN ExtendAll(intensity_points) ELSE << >>
        alt  == tt1 = << >> /\ doc.positions # << >> /\ doc.counts # << >>
        tt2  == IF alt THEN tt1 \o ExtendAll(doc.positions) ELSE tt1
        in2  == IF alt THEN in1 \o ExtendAll(doc.counts) ELSE in1
        min_len == Min(Len(tt2), Len(in2))
    IN  IF ~doc.well_formed THEN Raise("ParseError")
        ELSE IF doc.kAlpha1.some /\ ~ParseFloat(doc.kAlpha1.val).some
        THEN Raise("ValueError")
        ELSE IF primary /\ ~AllParse(tt1) THEN Raise("ValueError")
        ELSE IF primary /\ ~AllParse(in1) THEN Raise("ValueError")
        ELSE IF alt /\ ~AllParse(ExtendAll(doc.positions)) THEN Raise("ValueError")
        ELSE IF alt /\ ~AllParse(ExtendAll(doc.counts)) THEN Raise("ValueError")
        ELSE IF tt2 = << >> \/ in2 = << >> THEN Raise("ValueError")
        ELSE Return([two_theta |-> Floats(SubSeq(tt2, 1, min_len)),
                     intensity |-> Floats(SubSeq(in2, 1, min_len))])

XRDMLParse ==
    /\ xrdml_pc = "start"
    /\ LET r == ParseXRDML(xml) IN
       IF r.raised
       THEN /\ xrdml_pc' = r.error
            /\ UNCHANGED xrdml_result
       ELSE /\ xrdml_pc' = "done"
            /\ xrdml_result' = Some(r.value)
    /\ UNCHANGED xml
    /\ UNCHANGED otherThanXrdml

(***************************************************************************)
(* Inputs of the XRDML parser.                                             *)
(***************************************************************************)
NumberToken == <<"0", ".", "5">>
TextToken == <<"a">>

ElementTexts == {<< >>, <<NumberToken>>, <<NumberToken, NumberToken>>, <<TextToken>>}
Elements == [in_scan : BOOLEAN, text : ElementTexts]

XrdmlIdle ==
    /\ xml = None
    /\ xrdml_pc = "idle"
    /\ xrdml_result = None

XrdmlInit ==
    /\ xml \in [well_formed : BOOLEAN,
                kAlpha1     : {None, Some(NumberToken), Some(TextToken)},
                positions   : SeqsUpTo(Elements, MaxElements),
                counts      : SeqsUpTo(Elements, MaxElements)]
    /\ xrdml_pc = "start"
    /\ xrdml_result = None

(***************************************************************************)
(* parse_xrd_file (file_parser.py lines 492-529).                          *)
(* A path is its suffix and what open() finds there: a directory, or a     *)
(* file with its first line as a sequence of characters and whether its    *)
(* bytes are valid UTF-8.  The outcome is the parser the call is handed to *)
(* or the error raised by the dispatcher itself.                           *)
(***************************************************************************)
LowerChar(c) ==
    CASE c = "X" -> "x" [] c = "R" -> "r" [] c = "D" -> "d" [] c = "M" -> "m"
      [] c = "L" -> "l" [] c = "A" -> "a" [] c = "W" -> "w" [] c = "T" -> "t"
      [] OTHER -> c

\* str.lower()
Lower(s) == [k \in 1..Len(s) |-> LowerChar(s[k])]

\* `needle in haystack`
Contains(haystack, needle) ==
    \E k \in 0..(Len(haystack) - Len(needle)) :
        SubSeq(haystack, k + 1, k + Len(needle)) = needle

SigXrdml == <<"x", "r", "d", "m", "l">>
SigXmlDecl == <<"<", "?", "x", "m", "l">>

\* lines 507-516
ParserOfSuffix(suffix) ==
    CASE suffix = <<".", "x", "r", "d", "m", "l">> -> Some("XRDML")
      [] suffix = <<".", "d", "a", "t">> -> Some("DAT")
      [] suffix = <<".", "a", "s", "c">> -> Some("ASC")
      [] suffix = <<".", "t", "x", "t">> -> Some("TXT")
      [] suffix = <<".", "r", "a", "w">> -> Some("RAW")
      [] OTHER -> None

\* lines 519-525: open(..., errors='ignore') drops undecodable bytes and
\* never raises UnicodeDecodeError; it raises IsADirectoryError on a directory
SniffContent(target) ==
    IF target.is_dir THEN Raise("IsADirectoryError")
    ELSE IF \/ Contains(Lower(target.first_line), SigXrdml)
            \/ Contains(target.first_line, SigXmlDecl)
         THEN Return("XRDML")
         ELSE Return("TXT")

\* lines 526-529
BinaryFallback(target) ==
    IF target.suffix = << >> \/ Lower(target.suffix) = <<".", "r", "a", "w">>
    THEN "RAW"
    ELSE "ValueError"

parse_xrd_file ==
    /\ dispatch_pc = "start"
    /\ LET suffix == Lower(path.suffix)
           known  == ParserOfSuffix(suffix)
           sniff  == SniffContent(path)
       IN  selected' = IF known.some THEN known.val
                       ELSE IF sniff.raised THEN BinaryFallback(path)
                       ELSE sniff.value
    /\ dispatch_pc' = "done"
    /\ UNCHANGED path
    /\ UNCHANGED otherThanDispatch

(***************************************************************************)
(* Inputs of parse_xrd_file.                                               *)
(***************************************************************************)
Suffixes ==
    {<<".", "x", "r", "d", "m", "l">>, <<".", "X", "R", "D", "M", "L">>,
     <<".", "d", "a", "t">>, <<".", "D", "a", "t">>, <<".", "a", "s", "c">>,
     <<".", "t", "x", "t">>, <<".", "r", "a", "w">>, <<".", "R", "A", "W">>,
     <<".", "b", "i", "n">>, << >>}

FirstLines ==
    {<<"<", "?", "x", "m", "l", " ">>,      \* XML declaration
     <<"<", "?", "X", "M", "L", " ">>,      \* the same in upper case
     <<"<", "X", "R", "D", "M", "L", ">">>, \* root element without declaration
     <<"1", " ", "2">>,                     \* text
     << >>}                                 \* empty

Paths ==
    [suffix : Suffixes, is_dir : {TRUE}, decodable : {TRUE}, first_line : {<< >>}]
    \cup [suffix : Suffixes, is_dir : {FALSE}, decodable : BOOLEAN,
          first_line : FirstLines]

DispatchIdle ==
    /\ path = None
    /\ dispatch_pc = "idle"
    /\ selected = "none"

DispatchInit ==
    /\ path \in Paths
    /\ dispatch_pc = "start"
    /\ selected = "none"

(***************************************************************************)
(* Exact rational arithmetic.  A value the code holds in a float64 is the  *)
(* fraction [n, d] with d > 0; rounding of the floating-point operations   *)
(* is not modelled.                                                        *)
(***************************************************************************)
Q(n, d) == [n |-> n, d |-> d]
QInt(i) == Q(i, 1)
RECURSIVE Gcd(_, _)
Gcd(a, b) == IF b = 0 THEN a ELSE Gcd(b, a % b)
QNorm(x) ==
    LET g == Gcd(Abs(x.n), x.d) IN Q(x.n \div g, x.d \div g)
QAdd(x, y) == QNorm(Q(x.n * y.d + y.n * x.d, x.d * y.d))
QSub(x, y) == QNorm(Q(x.n * y.d - y.n * x.d, x.d * y.d))
QMul(x, y) == QNorm(Q(x.n * y.n, x.d * y.d))
\* x / y for y # 0
QDiv(x, y) ==
    IF y.n > 0 THEN QNorm(Q(x.n * y.d, x.d * y.n))
    ELSE QNorm(Q(-(x.n * y.d), x.d * (-y.n)))
QLt(x, y) == x.n * y.d < y.n * x.d
QLe(x, y) == x.n * y.d <= y.n * x.d
QMin(x, y) == IF QLt(y, x) THEN y ELSE x
QMax(x, y) == IF QLt(x, y) THEN y ELSE x
QAbs(x) == Q(Abs(x.n), x.d)
QZero == Q(0, 1)

RECURSIVE QSum(_)
QSum(s) == IF s = << >> THEN QZero ELSE QAdd(s[1], QSum(Tail(s)))

\* np.max / np.min of a non-empty array
RECURSIVE QSeqMax(_)
QSeqMax(s) == IF Len(s) = 1 THEN s[1] ELSE QMax(s[1], QSeqMax(Tail(s)))
RECURSIVE QSeqMin(_)
QSeqMin(s) == IF Len(s) = 1 THEN s[1] ELSE QMin(s[1], QSeqMin(Tail(s)))

\* a - b, element by element
QSeqSub(a, b) == [k \in 1..Len(a) |-> QSub(a[k], b[k])]

(***************************************************************************)
(* background_subtraction.py.  The spectrum is sampled at the angles       *)
(* 1, 2, ..., n; the arrays hold fractions.                                *)
(***************************************************************************)
TwoThetaOf(values) == [k \in 1..Len(values) |-> QInt(k)]

\* np.polyfit(x, y, degree) followed by np.polyval(coeffs, at), for degree 0
\* and 1.  With a single point and degree 1 the system is rank deficient and
\* polyfit returns the minimum-norm solution of the column-scaled system,
\* the line y0 * (x + x0) / (2 * x0).  An empty x is a TypeError.
PolyFitEval(x, y, degree, at) ==
    LET m   == Len(x)
        Sx  == QSum(x)
        Sy  == QSum(y)
        Sxx == QSum([k \in 1..m |-> QMul(x[k], x[k])])
        Sxy == QSum([k \in 1..m |-> QMul(x[k], y[k])])
        D   == QSub(QMul(QInt(m), Sxx), QMul(Sx, Sx))
        A   == QSub(QMul(Sy, Sxx), QMul(Sx, Sxy))
        B   == QSub(QMul(QInt(m), Sxy), QMul(Sx, Sy))
    IN  IF m = 0 THEN Raise("TypeError")
        ELSE IF degree = 0
        THEN Return([k \in 1..Len(at) |-> QDiv(Sy, QInt(m))])
        ELSE IF m = 1
        THEN Return([k \in 1..Len(at) |->
                        QDiv(QMul(y[1], QAdd(at[k], x[1])),
                             QMul(QInt(2), x[1]))])
        ELSE Return([k \in 1..Len(at) |->
                        QDiv(QAdd(A, QMul(B, at[k])), D)])

\* a[mask]
Masked(a, m) ==
    LET RECURSIVE Pick(_)
        Pick(k) == IF k > Len(a) THEN << >>
                   ELSE (IF m[k] THEN <<a[k]>> ELSE << >>) \o Pick(k + 1)
    IN  Pick(1)

\* a mask updated on every iteration
AlwaysUpdatesMask(i, iterations) == TRUE
\* line 73: the mask is not updated on the last iteration
UpdatesMask(i, iterations) == i < iterations - 1

\* lines 74-76
UpdatedMask(values, fit, threshold) ==
    LET residual == QSeqSub(values, fit)
        threshold_value == QMul(threshold, QSeqMax(values))
    IN  [k \in 1..Len(values) |-> QLt(residual[k], threshold_value)]

\* scipy.ndimage boundary mode 'reflect': d c b a | a b c d | d c b a
RECURSIVE Reflect(_, _)
Reflect(i, n) ==
    IF i < 1 THEN Reflect(1 - i, n)
    ELSE IF i > n THEN Reflect(2 * n + 1 - i, n)
    ELSE i

\* scipy.ndimage.grey_erosion / grey_dilation with a constant structure
GreyErosion(a, size) ==
    [k \in 1..Len(a) |->
        QSeqMin([o \in 1..size |->
                    a[Reflect(k + o - 1 - (size \div 2), Len(a))]])]
GreyDilation(a, size) ==
    [k \in 1..Len(a) |->
        QSeqMax([o \in 1..size |->
                    a[Reflect(k - (o - 1 - (size \div 2)), Len(a))]])]
\* scipy.ndimage.grey_opening: erosion, then dilation
GreyOpening(a, size) == GreyDilation(GreyErosion(a, size), size)

\* scipy.ndimage.gaussian_filter1d(a, sigma = ball_radius / 10): the kernel
\* reaches int(4 * sigma + 0.5) samples to each side; its weights are given
\* in thousandths, rounded
GaussianSideWeight(ball_radius) ==
    CASE ball_radius = 1 -> 0      \* no neighbour in reach
      [] ball_radius = 2 -> 0      \* exp(-12.5)
      [] ball_radius = 3 -> 4      \* exp(-5.56) / (1 + 2 exp(-5.56))
GaussianFilter(a, ball_radius) ==
    LET w == GaussianSideWeight(ball_radius) IN
    [k \in 1..Len(a) |->
        QDiv(QAdd(QMul(QInt(1000 - 2 * w), a[k]),
                  QMul(QInt(w), QAdd(a[Reflect(k - 1, Len(a))],
                                     a[Reflect(k + 1, Len(a))]))),
             QInt(1000))]

\* line 175: max(1, int(len(intensity) * reduction_factor ** i))
RECURSIVE IntPow(_, _)
IntPow(b, e) == IF e = 0 THEN 1 ELSE b * IntPow(b, e - 1)
SnipWindow(n, reduction_factor, i) ==
    LET w == (n * IntPow(reduction_factor.n, i))
             \div IntPow(reduction_factor.d, i)
    IN  IF w < 1 THEN 1 ELSE w

\* a pass that takes the maximum of the window
RaiseValue(current, in_window) == QMax(current, QSeqMax(in_window))
\* line 184: min(background[j], np.min(background[start:end]))
ClipValue(current, in_window) == QMin(current, QSeqMin(in_window))

\* lines 181-184: one clipping pass, in place, from index j on (1-based)
RECURSIVE SnipClip(_, _, _)
SnipClip(bg, window, j) ==
    IF j > Len(bg) THEN bg
    ELSE LET start == IF j - (window \div 2) < 1 THEN 1
                      ELSE j - (window \div 2)
             end   == IF j + (window \div 2) > Len(bg) THEN Len(bg)
                      ELSE j + (window \div 2)
             low   == ClipValue(bg[j], SubSeq(bg, start, end))
         IN  SnipClip([bg EXCEPT ![j] = low], window, j + 1)

\* passes that write to the caller's array
AliasedArrayAfterPass(caller, clipped) == clipped
\* line 170: the background starts as a copy; the caller's array is not
\* the one the passes write to
CallerArrayAfterPass(caller, clipped) == caller

BgMethods == {"polynomial", "iterative_polynomial", "rolling_ball",
              "tophat", "snip"}

\* lines 35-41
polynomial_background ==
    /\ bg_pc = "polynomial"
    /\ LET fit == PolyFitEval(TwoThetaOf(bg_intensity), bg_intensity,
                              bg_call.kwargs.degree, TwoThetaOf(bg_intensity))
       IN  IF fit.raised
           THEN /\ bg_pc' = fit.error
                /\ UNCHANGED <<background, corrected>>
           ELSE /\ background' = fit.value
                /\ corrected' = QSeqSub(bg_intensity, fit.value)
                /\ bg_pc' = "done"
    /\ UNCHANGED <<bg_call, bg_intensity, bg_round, bg_mask>>
    /\ UNCHANGED otherThanBg

\* lines 64-65
IterativeEnter ==
    /\ bg_pc = "iterative_polynomial"
    /\ bg_mask' = [k \in 1..Len(bg_intensity) |-> TRUE]
    /\ background' = [k \in 1..Len(bg_intensity) |-> QZero]
    /\ bg_round' = 0
    /\ bg_pc' = "iterative_loop"
    /\ UNCHANGED <<bg_call, bg_intensity, corrected>>
    /\ UNCHANGED otherThanBg

\* lines 67-76: one iteration of the loop
IterativeFit ==
    /\ bg_pc = "iterative_loop"
    /\ bg_round < bg_call.kwargs.iterations
    /\ LET x   == TwoThetaOf(bg_intensity)
           fit == PolyFitEval(Masked(x, bg_mask),
                              Masked(bg_intensity, bg_mask),
                              bg_call.kwargs.degree, x)
       IN  IF fit.raised
           THEN /\ bg_pc' = fit.error
                /\ UNCHANGED <<background, bg_mask, bg_round>>
           ELSE /\ background' = fit.value
                /\ bg_mask' = IF UpdatesMask(bg_round,
                                             bg_call.kwargs.iterations)
                              THEN UpdatedMask(bg_intensity, fit.value,
                                               bg_call.kwargs.threshold)
                              ELSE bg_mask
                /\ bg_round' = bg_round + 1
                /\ UNCHANGED bg_pc
    /\ UNCHANGED <<bg_call, bg_intensity, corrected>>
    /\ UNCHANGED otherThanBg

\* lines 78-80
IterativeFinish ==
    /\ bg_pc = "iterative_loop"
    /\ bg_round >= bg_call.kwargs.iterations
    /\ corrected' = QSeqSub(bg_intensity, background)
    /\ bg_pc' = "done"
    /\ UNCHANGED <<bg_call, bg_intensity, bg_round, bg_mask, background>>
    /\ UNCHANGED otherThanBg

\* lines 100-116
rolling_ball_background ==
    /\ bg_pc = "rolling_ball"
    /\ LET opened == GreyOpening(bg_intensity, bg_call.kwargs.size)
           smooth == GaussianFilter(opened, bg_call.kwargs.size)
       IN  /\ background' = smooth
           /\ corrected' = QSeqSub(bg_intensity, smooth)
    /\ bg_pc' = "done"
    /\ UNCHANGED <<bg_call, bg_intensity, bg_round, bg_mask>>
    /\ UNCHANGED otherThanBg

\* lines 135-150
tophat_background ==
    /\ bg_pc = "tophat"
    /\ LET opened == GreyOpening(bg_intensity, bg_call.kwargs.size)
       IN  /\ background' = opened
           /\ corrected' = QSeqSub(bg_intensity, opened)
    /\ bg_pc' = "done"
    /\ UNCHANGED <<bg_call, bg_intensity, bg_round, bg_mask>>
    /\ UNCHANGED otherThanBg

\* line 170
SnipEnter ==
    /\ bg_pc = "snip"
    /\ background' = bg_intensity
    /\ bg_round' = 0
    /\ bg_pc' = "snip_loop"
    /\ UNCHANGED <<bg_call, bg_intensity, bg_mask, corrected>>
    /\ UNCHANGED otherThanBg

SnipContinues ==
    /\ bg_round < bg_call.kwargs.iterations
    /\ SnipWindow(Len(bg_intensity), bg_call.kwargs.reduction_factor, bg_round) >= 3

\* lines 173-184: one clipping pass
SnipPass ==
    /\ bg_pc = "snip_loop"
    /\ SnipContinues
    /\ LET window  == SnipWindow(Len(bg_intensity),
                                 bg_call.kwargs.reduction_factor, bg_round)
           clipped == SnipClip(background, window, 1)
       IN  /\ background' = clipped
           /\ bg_intensity' = CallerArrayAfterPass(bg_intensity, clipped)
    /\ bg_round' = bg_round + 1
    /\ UNCHANGED <<bg_call, bg_pc, bg_mask, corrected>>
    /\ UNCHANGED otherThanBg

\* lines 177-178, 186-188
SnipFinish ==
    /\ bg_pc = "snip_loop"
    /\ ~SnipContinues
    /\ corrected' = QSeqSub(bg_intensity, background)
    /\ bg_pc' = "done"
    /\ UNCHANGED <<bg_call, bg_intensity, bg_round, bg_mask, background>>
    /\ UNCHANGED otherThanBg

(***************************************************************************)
(* Inputs of the background methods.                                       *)
(***************************************************************************)
BgValues == {QInt(-1), QInt(0), QInt(2)}
BgSpectra == UNION {[1..n -> BgValues] : n \in 1..MaxPoints}
Degrees == {0, 1}
IterationCounts == {0, 1, 2}
Thresholds == {Q(1, 10), Q(1, 2)}
StructureSizes == {1, 2, 3}
ReductionFactors == {Q(1, 2), Q(1, 1)}

\* snip_background(..., iterations=100, reduction_factor=0.5)
DefaultSnipIterations == 100
DefaultReductionFactor == Q(1, 2)

\* the keyword arguments a method does not take are left at 0
NoInt == 0
NoQ == QZero
BgCall(method, degree, iterations, threshold, size, reduction_factor) ==
    [method |-> method, degree |-> degree, iterations |-> iterations,
     threshold |-> threshold, size |-> size,
     reduction_factor |-> reduction_factor]

BgCalls ==
    {BgCall("polynomial", d, NoInt, NoQ, NoInt, NoQ) : d \in Degrees}
    \cup {BgCall("iterative_polynomial", d, i, t, NoInt, NoQ) :
             d \in Degrees, i \in IterationCounts, t \in Thresholds}
    \cup {BgCall(m, NoInt, NoInt, NoQ, s, NoQ) :
             m \in {"rolling_ball", "tophat"}, s \in StructureSizes}
    \cup {BgCall("snip", NoInt, i, NoQ, NoInt, r) :
             i \in IterationCounts, r \in ReductionFactors}
    \cup {BgCall("snip", NoInt, DefaultSnipIterations, NoQ, NoInt,
                 DefaultReductionFactor)}

BgIdle ==
    /\ bg_call = None
    /\ bg_intensity = << >>
    /\ bg_pc = "idle"
    /\ bg_round = 0
    /\ bg_mask = << >>
    /\ background = << >>
    /\ corrected = << >>

\* subtract_background has picked the method (line 217)
BgInit ==
    /\ \E kwargs \in BgCalls, spectrum \in BgSpectra :
          /\ bg_call = [kwargs |-> kwargs, intensity |-> spectrum]
          /\ bg_intensity = spectrum
    /\ bg_pc = bg_call.kwargs.method
    /\ bg_round = 0
    /\ bg_mask = << >>
    /\ background = << >>
    /\ corrected = << >>

(***************************************************************************)
(* The three dispatchers by method name: subtract_background               *)
(* (background_subtraction.py 206-217), strip_kalpha (kalpha_stripping.py  *)
(* 119-142) and detect_peaks (peak_detection.py 343-353).  A table is the  *)
(* dict `methods` in insertion order; keyword arguments are a set of       *)
(* <<name, value>> pairs.  Wavelengths are in 1e-5 Angstrom, wavelength    *)
(* ratios in 1e-4.                                                         *)
(***************************************************************************)
BackgroundTable ==
    << <<"polynomial", "polynomial_background">>,
       <<"iterative_polynomial", "iterative_polynomial_background">>,
       <<"rolling_ball", "rolling_ball_background">>,
       <<"tophat", "tophat_background">>,
       <<"snip", "snip_background">> >>

KalphaTable ==
    << <<"rachinger", "rachinger_correction">>,
       <<"iterative_rachinger", "iterative_rachinger_correction">> >>

PeakTable ==
    << <<"prominence", "detect_peaks_prominence">>,
       <<"threshold", "detect_peaks_threshold">>,
       <<"derivative", "detect_peaks_derivative">>,
       <<"savgol", "detect_peaks_savgol">> >>

Dispatchers == {"subtract_background", "strip_kalpha", "detect_peaks"}

TableOf(dispatcher) ==
    CASE dispatcher = "subtract_background" -> BackgroundTable
      [] dispatcher = "strip_kalpha" -> KalphaTable
      [] dispatcher = "detect_peaks" -> PeakTable

\* list(methods.keys())
Keys(table) == [k \in 1..Len(table) |-> table[k][1]]

\* a dispatcher that falls back to its first entry
LookupWithDefault(table, method) ==
    LET hits == {k \in 1..Len(table) : table[k][1] = method} IN
    IF hits = {} THEN Some(table[1][2])
    ELSE Some(table[CHOOSE k \in hits : TRUE][2])
\* `method not in methods` / methods[method]
Lookup(table, method) ==
    LET hits == {k \in 1..Len(table) : table[k][1] = method} IN
    IF hits = {} THEN None ELSE Some(table[CHOOSE k \in hits : TRUE][2])

\* kalpha_stripping.py lines 121-127
WavelengthRatios ==
    << <<154184, 10025>>, <<154056, 10025>>, <<154439, 10025>>,
       <<179026, 10023>>, <<70932, 10018>> >>

\* line 130: min(keys, key = |x - wavelength|), the first of equally close keys
ClosestWavelength(wavelength) ==
    LET dist(k) == Abs(WavelengthRatios[k][1] - wavelength)
        best == CHOOSE k \in 1..Len(WavelengthRatios) :
                   \A o \in 1..Len(WavelengthRatios) :
                      dist(k) < dist(o) \/ (dist(k) = dist(o) /\ k <= o)
    IN  WavelengthRatios[best]

HasKey(kwargs, key) == \E p \in kwargs : p[1] = key

\* lines 119-132: the keyword arguments after the automatic ratio selection
WithAutoRatio(kwargs, wavelength) ==
    IF wavelength.some /\ ~HasKey(kwargs, "wavelength_ratio")
    THEN kwargs \cup {<<"wavelength_ratio", ClosestWavelength(wavelength.val)[2]>>}
    ELSE kwargs

DispatchByName ==
    /\ method_pc = "start"
    /\ LET table  == TableOf(request.dispatcher)
           kwargs == IF request.dispatcher = "strip_kalpha"
                     THEN WithAutoRatio(request.kwargs, request.wavelength)
                     ELSE request.kwargs
           found  == Lookup(table, request.method)
       IN  IF ~found.some
           THEN /\ method_pc' = "ValueError"
                /\ error_lists' = Some(Keys(table))
                /\ UNCHANGED invoked
           ELSE /\ method_pc' = "called"
                /\ invoked' = Some([algorithm |-> found.val, kwargs |-> kwargs])
                /\ UNCHANGED error_lists
    /\ UNCHANGED request
    /\ UNCHANGED otherThanMethod

(***************************************************************************)
(* Inputs of the dispatchers.                                              *)
(***************************************************************************)
MethodNames ==
    {BackgroundTable[k][1] : k \in 1..Len(BackgroundTable)}
    \cup {KalphaTable[k][1] : k \in 1..Len(KalphaTable)}
    \cup {PeakTable[k][1] : k \in 1..Len(PeakTable)}
    \cup {"", "Polynomial", "auto"}

KeywordArguments ==
    SUBSET {<<"degree", 2>>, <<"iterations", 3>>, <<"wavelength_ratio", 10020>>}

Wavelengths == {None, Some(154056), Some(179026), Some(70932), Some(154120)}

Requests ==
    [dispatcher : {"subtract_background", "detect_peaks"},
     method : MethodNames, kwargs : KeywordArguments, wavelength : {None}]
    \cup [dispatcher : {"strip_kalpha"}, method : MethodNames,
          kwargs : KeywordArguments, wavelength : Wavelengths]

MethodIdle ==
    /\ request = None
    /\ method_pc = "idle"
    /\ invoked = None
    /\ error_lists = None

MethodInit ==
    /\ request \in Requests
    /\ method_pc = "start"
    /\ invoked = None
    /\ error_lists = None

(***************************************************************************)
(* kalpha_stripping.py: rachinger_correction and                           *)
(* iterative_rachinger_correction.  The spectrum is sampled at the angles  *)
(* 1, 2, ..., n.  The angular shift 2 * atan(tan(theta) * (ratio - 1)) is  *)
(* taken in its small-angle form two_theta * (ratio - 1), which is exact   *)
(* in the fractions of the model; the ratios are chosen so that the        *)
(* shifted angles fall on samples, between samples and outside the scan.   *)
(***************************************************************************)
\* lines 40-41
DeltaTwoTheta(two_theta, wavelength_ratio) ==
    QMul(two_theta, QSub(wavelength_ratio, QInt(1)))

\* scipy.interpolate.interp1d(x, y, kind='linear', bounds_error=False,
\* fill_value=0.0) evaluated at `at`, for ascending x
Interp(x, y, at) ==
    IF QLt(at, x[1]) \/ QLt(x[Len(x)], at) THEN QZero
    ELSE IF at = x[Len(x)] THEN y[Len(x)]
    ELSE LET k == CHOOSE i \in 1..(Len(x) - 1) :
                     QLe(x[i], at) /\ QLt(at, x[i + 1])
             slope == QDiv(QSub(y[k + 1], y[k]), QSub(x[k + 1], x[k]))
         IN  QAdd(y[k], QMul(slope, QSub(at, x[k])))

\* a correction without the clamp
Unclamped(v) == v
\* line 58: np.maximum(kalpha1_intensity, 0)
ClampNonNegative(v) == QMax(v, QZero)

\* lines 40-60: <<kalpha1_intensity, kalpha2_intensity>>
rachinger_correction(two_theta, values, wavelength_ratio, intensity_ratio) ==
    LET shifted == [k \in 1..Len(values) |->
                       QSub(two_theta[k],
                            DeltaTwoTheta(two_theta[k], wavelength_ratio))]
        k2 == [k \in 1..Len(values) |->
                  QMul(Interp(two_theta, values, shifted[k]), intensity_ratio)]
        k1 == [k \in 1..Len(values) |->
                  ClampNonNegative(QSub(values[k], k2[k]))]
    IN  <<k1, k2>>

\* a final correction computed from the last iterated estimate
FinalFromIterated(original, iterated) == iterated
\* lines 93-96: the final correction is computed from the original spectrum
FinalInput(original, iterated) == original

\* rachinger_correction called through strip_kalpha
RachingerCall ==
    /\ ka_pc = "rachinger"
    /\ LET r == rachinger_correction(TwoThetaOf(ka_intensity), ka_intensity,
                                     ka_call.wavelength_ratio,
                                     ka_call.intensity_ratio)
       IN  /\ kalpha1' = r[1]
           /\ kalpha2' = r[2]
    /\ ka_pc' = "done"
    /\ UNCHANGED <<ka_call, ka_intensity, ka_round, current_intensity>>
    /\ UNCHANGED otherThanKa

\* line 83
IterativeRachingerEnter ==
    /\ ka_pc = "iterative_rachinger"
    /\ current_intensity' = ka_intensity
    /\ ka_round' = 0
    /\ ka_pc' = "iterative_rachinger_loop"
    /\ UNCHANGED <<ka_call, ka_intensity, kalpha1, kalpha2>>
    /\ UNCHANGED otherThanKa

\* lines 85-90: one iteration
IterativeRachingerStep ==
    /\ ka_pc = "iterative_rachinger_loop"
    /\ ka_round < ka_call.iterations
    /\ LET r == rachinger_correction(TwoThetaOf(ka_intensity),
                                     current_intensity,
                                     ka_call.wavelength_ratio,
                                     ka_call.intensity_ratio)
       IN  /\ kalpha1' = r[1]
           /\ kalpha2' = r[2]
           /\ current_intensity' = r[1]
    /\ ka_round' = ka_round + 1
    /\ UNCHANGED <<ka_call, ka_intensity, ka_pc>>
    /\ UNCHANGED otherThanKa

\* lines 92-98
IterativeRachingerFinal ==
    /\ ka_pc = "iterative_rachinger_loop"
    /\ ka_round >= ka_call.iterations
    /\ LET r == rachinger_correction(TwoThetaOf(ka_intensity),
                                     FinalInput(ka_intensity,
                                                current_intensity),
                                     ka_call.wavelength_ratio,
                                     ka_call.intensity_ratio)
       IN  /\ kalpha1' = r[1]
           /\ kalpha2' = r[2]
    /\ ka_pc' = "done"
    /\ UNCHANGED <<ka_call, ka_intensity, ka_round, current_intensity>>
    /\ UNCHANGED otherThanKa

(***************************************************************************)
(* Inputs of the K-alpha stripper.                                         *)
(***************************************************************************)
KaValues == {QInt(-2), QInt(0), QInt(4)}
KaSpectra == UNION {[1..n -> KaValues] : n \in 2..MaxPoints}
WavelengthRatioSet == {Q(1, 1), Q(3, 2), Q(1, 2), Q(2, 1)}
IntensityRatios == {Q(0, 1), Q(1, 2), Q(1, 1)}

KaCalls ==
    [method : {"rachinger"}, iterations : {0},
     wavelength_ratio : WavelengthRatioSet, intensity_ratio : IntensityRatios,
     intensity : KaSpectra]
    \cup [method : {"iterative_rachinger"}, iterations : 0..MaxIterations,
          wavelength_ratio : WavelengthRatioSet,
          intensity_ratio : IntensityRatios, intensity : KaSpectra]

KaIdle ==
    /\ ka_call = None
    /\ ka_intensity = << >>
    /\ ka_pc = "idle"
    /\ ka_round = 0
    /\ current_intensity = << >>
    /\ kalpha1 = << >>
    /\ kalpha2 = << >>

\* strip_kalpha has picked the method (line 142)
KaInit ==
    /\ ka_call \in KaCalls
    /\ ka_intensity = ka_call.intensity
    /\ ka_pc = ka_call.method
    /\ ka_round = 0
    /\ current_intensity = << >>
    /\ kalpha1 = << >>
    /\ kalpha2 = << >>

(***************************************************************************)
(* peak_detection.py: detect_peaks_threshold.  Indices are those of the    *)
(* code, starting at 0; At(a, i) is a[i].                                  *)
(***************************************************************************)
At(a, i) == a[i + 1]

Min2(a, b) == IF a < b THEN a ELSE b
Max2(a, b) == IF a > b THEN a ELSE b

\* DetectedPeak(two_theta[i], intensity[i], i)
DetectedPeak(two_theta, intensity, index) ==
    [two_theta |-> two_theta, intensity |-> intensity, index |-> index]

\* lines 50-51
DefaultThreshold(intensity) == QMul(QSeqMax(intensity), Q(1, 10))

\* lines 58-62: the inner loop over the clipped window
is_peak(intensity, i, min_distance) ==
    \A j \in Max2(0, i - min_distance) ..
             (Min2(Len(intensity), i + min_distance + 1) - 1) :
        ~(j # i /\ QLe(At(intensity, i), At(intensity, j)))

\* line 55: range(min_distance, len(intensity) - min_distance)
ScanStart(intensity, min_distance) == min_distance
ScanStop(intensity, min_distance) == Len(intensity) - min_distance

\* lines 50-54
ThresholdEnter ==
    /\ th_pc = "detect_peaks_threshold"
    /\ th_threshold' = IF th_call.threshold.some THEN th_call.threshold.val
                    ELSE DefaultThreshold(th_call.intensity)
    /\ th_peaks' = << >>
    /\ th_i' = ScanStart(th_call.intensity, th_call.min_distance)
    /\ th_pc' = "scan"
    /\ UNCHANGED th_call
    /\ UNCHANGED otherThanTh

\* lines 55-65: one index of the outer loop
ThresholdVisit ==
    /\ th_pc = "scan"
    /\ th_i < ScanStop(th_call.intensity, th_call.min_distance)
    /\ th_peaks' =
          IF /\ QLt(th_threshold, At(th_call.intensity, th_i))
             /\ is_peak(th_call.intensity, th_i, th_call.min_distance)
          THEN Append(th_peaks,
                      DetectedPeak(At(TwoThetaOf(th_call.intensity), th_i),
                                   At(th_call.intensity, th_i), th_i))
          ELSE th_peaks
    /\ th_i' = th_i + 1
    /\ UNCHANGED <<th_call, th_pc, th_threshold>>
    /\ UNCHANGED otherThanTh

\* line 67
ThresholdReturn ==
    /\ th_pc = "scan"
    /\ th_i >= ScanStop(th_call.intensity, th_call.min_distance)
    /\ th_pc' = "done"
    /\ UNCHANGED <<th_call, th_i, th_threshold, th_peaks>>
    /\ UNCHANGED otherThanTh

ThValues == {QInt(0), QInt(1), QInt(5)}
ThSpectra == UNION {[1..n -> ThValues] : n \in 1..MaxPoints}
ThThresholds == {None, Some(QInt(0)), Some(QInt(1))}
MinDistances == 0..MaxDistance

ThCalls == [intensity : ThSpectra, threshold : ThThresholds,
            min_distance : MinDistances]

ThIdle ==
    /\ th_call = None
    /\ th_pc = "idle"
    /\ th_i = 0
    /\ th_threshold = QZero
    /\ th_peaks = << >>

ThInit ==
    /\ th_call \in ThCalls
    /\ th_pc = "detect_peaks_threshold"
    /\ th_i = 0
    /\ th_threshold = QZero
    /\ th_peaks = << >>

(***************************************************************************)
(* peak_detection.py: calculate_fwhm.  Indices start at 0 as in the code.  *)
(***************************************************************************)
\* lines 168-169: the index where the leftward walk stops
RECURSIVE LeftWalk(_, _, _)
LeftWalk(intensity, half_max, left_idx) ==
    IF left_idx > 0 /\ QLt(half_max, At(intensity, left_idx))
    THEN LeftWalk(intensity, half_max, left_idx - 1)
    ELSE left_idx

\* lines 185-186: the index where the rightward walk stops
RECURSIVE RightWalk(_, _, _)
RightWalk(intensity, half_max, right_idx) ==
    IF right_idx < Len(intensity) - 1 /\ QLt(half_max, At(intensity, right_idx))
    THEN RightWalk(intensity, half_max, right_idx + 1)
    ELSE right_idx

\* abs(y2 - y1) > 1e-10: the intensities of the model are whole numbers, so
\* the difference exceeds the tolerance exactly when they differ
NotFlat(y1, y2) == y1 # y2

\* lines 176, 193: x1 + (half_max - y1) * (x2 - x1) / (y2 - y1)
Interpolate(x1, y1, x2, y2, half_max) ==
    QAdd(x1, QDiv(QMul(QSub(half_max, y1), QSub(x2, x1)), QSub(y2, y1)))

\* lines 172-180
Left2Theta(two_theta, intensity, peak_index, half_max) ==
    LET left_idx == LeftWalk(intensity, half_max, peak_index)
    IN  IF left_idx < peak_index /\ left_idx + 1 < Len(intensity)
        THEN LET y1 == At(intensity, left_idx)
                 y2 == At(intensity, left_idx + 1)
             IN  IF NotFlat(y1, y2)
                 THEN Interpolate(At(two_theta, left_idx), y1,
                                  At(two_theta, left_idx + 1), y2, half_max)
                 ELSE At(two_theta, left_idx)
        ELSE IF left_idx >= 0 THEN At(two_theta, left_idx)
             ELSE At(two_theta, 0)

\* lines 189-197
Right2Theta(two_theta, intensity, peak_index, half_max) ==
    LET right_idx == RightWalk(intensity, half_max, peak_index)
    IN  IF right_idx > peak_index /\ right_idx > 0
        THEN LET y1 == At(intensity, right_idx - 1)
                 y2 == At(intensity, right_idx)
             IN  IF NotFlat(y1, y2)
                 THEN Interpolate(At(two_theta, right_idx - 1), y1,
                                  At(two_theta, right_idx), y2, half_max)
                 ELSE At(two_theta, right_idx)
        ELSE IF right_idx < Len(two_theta) THEN At(two_theta, right_idx)
             ELSE At(two_theta, Len(two_theta) - 1)

\* lines 158-163: the two early returns
FwhmReject ==
    /\ fw_pc = "calculate_fwhm"
    /\ IF fw_call.peak_index < 0
          \/ fw_call.peak_index >= Len(fw_call.intensity)
       THEN TRUE
       ELSE QLe(At(fw_call.intensity, fw_call.peak_index), QZero)
    /\ fwhm' = None
    /\ fw_pc' = "done"
    /\ UNCHANGED <<fw_call, fw_half_max, left_2theta, right_2theta>>
    /\ UNCHANGED otherThanFw

\* lines 158-180
FwhmLeft ==
    /\ fw_pc = "calculate_fwhm"
    /\ fw_call.peak_index >= 0
    /\ fw_call.peak_index < Len(fw_call.intensity)
    /\ QLt(QZero, At(fw_call.intensity, fw_call.peak_index))
    /\ LET peak_intensity == At(fw_call.intensity, fw_call.peak_index)
           half == QDiv(peak_intensity, QInt(2))
       IN  /\ fw_half_max' = half
           /\ left_2theta' = Left2Theta(TwoThetaOf(fw_call.intensity),
                                        fw_call.intensity,
                                        fw_call.peak_index, half)
    /\ fw_pc' = "right"
    /\ UNCHANGED <<fw_call, right_2theta, fwhm>>
    /\ UNCHANGED otherThanFw

\* lines 183-197
FwhmRight ==
    /\ fw_pc = "right"
    /\ right_2theta' = Right2Theta(TwoThetaOf(fw_call.intensity),
                                   fw_call.intensity, fw_call.peak_index,
                                   fw_half_max)
    /\ fw_pc' = "width"
    /\ UNCHANGED <<fw_call, fw_half_max, left_2theta, fwhm>>
    /\ UNCHANGED otherThanFw

\* lines 199-200
FwhmReturn ==
    /\ fw_pc = "width"
    /\ LET width == QSub(right_2theta, left_2theta)
       IN  fwhm' = IF QLt(QZero, width) THEN Some(width) ELSE None
    /\ fw_pc' = "done"
    /\ UNCHANGED <<fw_call, fw_half_max, left_2theta, right_2theta>>
    /\ UNCHANGED otherThanFw

FwValues == {QInt(0), QInt(4), QInt(8), QInt(10)}
FwSpectra == UNION {[1..n -> FwValues] : n \in 1..MaxPoints}
FwCalls ==
    UNION {[intensity : {s}, peak_index : (0 - 1)..Len(s)] : s \in FwSpectra}

FwIdle ==
    /\ fw_call = None
    /\ fw_pc = "idle"
    /\ fw_half_max = QZero
    /\ left_2theta = QZero
    /\ right_2theta = QZero
    /\ fwhm = None

FwInit ==
    /\ fw_call \in FwCalls
    /\ fw_pc = "calculate_fwhm"
    /\ fw_half_max = QZero
    /\ left_2theta = QZero
    /\ right_2theta = QZero
    /\ fwhm = None

(***************************************************************************)
(* peak_detection.py: get_filtered_peaks, with scipy.signal.find_peaks as  *)
(* the library documents it.  Indices start at 0 as in the code.           *)
(***************************************************************************)
\* find_peaks, step 1: the local maxima; a flat top counts once, at the
\* middle of the plateau (rounded down), and the two end samples never count
LocalMaxima(x) ==
    {m \in 0..(Len(x) - 1) :
        \E l \in 1..(Len(x) - 2) : \E r \in l..(Len(x) - 2) :
            /\ \A k \in l..r : At(x, k) = At(x, l)
            /\ QLt(At(x, l - 1), At(x, l))
            /\ QLt(At(x, r + 1), At(x, r))
            /\ m = (l + r) \div 2}

\* the candidate served first by the distance selection: the highest one,
\* the later of two equally high ones
TopPriority(x, pending) ==
    CHOOSE j \in pending :
        \A k \in pending :
            \/ QLt(At(x, k), At(x, j))
            \/ (At(x, k) = At(x, j) /\ k <= j)

\* find_peaks, distance condition: from the highest candidate down, a kept
\* candidate removes every other candidate closer than `distance` samples
RECURSIVE SelectByDistance(_, _, _, _)
SelectByDistance(x, pending, kept, distance) ==
    IF pending = {} THEN kept
    ELSE LET j == TopPriority(x, pending)
             far == {k \in pending \ {j} :
                        k - j >= distance \/ j - k >= distance}
         IN  SelectByDistance(x, far, kept \cup {j}, distance)

RECURSIVE StretchMin(_, _, _, _)
\* the lowest value from the peak outwards (direction -1 or +1) up to, not
\* including, the first sample higher than the peak
StretchMin(x, peak, i, dir) ==
    IF i < 0 \/ i > Len(x) - 1 THEN At(x, peak)
    ELSE IF QLt(At(x, peak), At(x, i)) THEN At(x, peak)
    ELSE QMin(At(x, i), StretchMin(x, peak, i + dir, dir))

\* scipy.signal.peak_prominences for one peak
Prominence(x, peak) ==
    QSub(At(x, peak),
         QMax(StretchMin(x, peak, peak, 0 - 1), StretchMin(x, peak, peak, 1)))

\* ascending sequence of a set of indices
RECURSIVE Ascending(_)
Ascending(S) ==
    IF S = {} THEN << >>
    ELSE LET least == CHOOSE i \in S : \A k \in S : i <= k
         IN  <<least>> \o Ascending(S \ {least})

\* find_peaks(x, prominence=..., distance=...): the indices, and the
\* properties dictionary, which holds 'prominences' only when a prominence
\* condition was given
find_peaks(x, prominence, distance) ==
    LET spaced == SelectByDistance(x, LocalMaxima(x), {}, distance)
        kept == IF prominence.some
                THEN {p \in spaced : QLe(prominence.val, Prominence(x, p))}
                ELSE spaced
        indices == Ascending(kept)
    IN  [peak_indices |-> indices,
         properties |->
            IF prominence.some
            THEN [key \in {"prominences"} |->
                     [k \in 1..Len(indices) |-> Prominence(x, indices[k])]]
            ELSE [key \in {} |-> << >>]]

\* lines 221-226 (main_window.py 556-560): spacing = two_theta[1] -
\* two_theta[0] is 1 in the model, so int(0.1 / spacing) is 0
AutoDistance(two_theta) ==
    IF Len(two_theta) > 1 THEN Max2(1, 0) ELSE 5

\* line 250: prominence_threshold * 0.3
SignificantFloor(prominence_threshold) == QMul(prominence_threshold, Q(3, 10))

\* lines 221-243
FilteredFind ==
    /\ fp_pc = "get_filtered_peaks"
    /\ LET distance == IF fp_call.distance.some THEN fp_call.distance.val
                       ELSE AutoDistance(TwoThetaOf(fp_call.intensity))
           all == find_peaks(fp_call.intensity, None, distance)
           detected == find_peaks(fp_call.intensity,
                                  Some(fp_call.prominence_threshold),
                                  distance)
       IN  /\ all_peak_indices' = all.peak_indices
           /\ all_properties' = all.properties
           /\ detected_set' = {detected.peak_indices[k] :
                                  k \in 1..Len(detected.peak_indices)}
    /\ fp_pc' = "collect"
    /\ UNCHANGED <<fp_call, filtered_peaks, filtered_peaks_label>>
    /\ UNCHANGED otherThanFp

\* the entry appended for position k of all_peak_indices (lines 248-257)
FilteredEntry(k) ==
    [index |-> all_peak_indices[k],
     two_theta |-> At(TwoThetaOf(fp_call.intensity), all_peak_indices[k]),
     intensity |-> At(fp_call.intensity, all_peak_indices[k]),
     prominence |-> all_properties["prominences"][k]]

RECURSIVE Collect(_)
\* lines 247-257: the loop, from position k on
Collect(k) ==
    IF k > Len(all_peak_indices) THEN << >>
    ELSE IF /\ all_peak_indices[k] \notin detected_set
            /\ QLe(SignificantFloor(fp_call.prominence_threshold),
                   all_properties["prominences"][k])
         THEN <<FilteredEntry(k)>> \o Collect(k + 1)
         ELSE Collect(k + 1)

\* lines 245-258
FilteredCollect ==
    /\ fp_pc = "collect"
    /\ filtered_peaks' = IF "prominences" \in DOMAIN all_properties
                         THEN Collect(1)
                         ELSE << >>
    /\ fp_pc' = "returned"
    /\ UNCHANGED <<fp_call, all_peak_indices, all_properties, detected_set,
                   filtered_peaks_label>>
    /\ UNCHANGED otherThanFp

\* main_window.py 569-585: the warning is shown for a non-empty result
ShowFilteredPeaks ==
    /\ fp_pc = "returned"
    /\ filtered_peaks_label' = IF Len(filtered_peaks) > 0 THEN "warning"
                               ELSE ""
    /\ fp_pc' = "done"
    /\ UNCHANGED <<fp_call, all_peak_indices, all_properties, detected_set,
                   filtered_peaks>>
    /\ UNCHANGED otherThanFp

FpValues == {QInt(0), QInt(1), QInt(3)}
FpSpectra == UNION {[1..n -> FpValues] : n \in 1..MaxSamples}
ProminenceThresholds == {QInt(1), QInt(2), QInt(5)}
Distances == {None} \cup {Some(d) : d \in 1..MaxDistance + 1}

FpCalls == [intensity : FpSpectra,
            prominence_threshold : ProminenceThresholds,
            distance : Distances]

FpIdle ==
    /\ fp_call = None
    /\ fp_pc = "idle"
    /\ all_peak_indices = << >>
    /\ all_properties = << >>
    /\ detected_set = {}
    /\ filtered_peaks = << >>
    /\ filtered_peaks_label = ""

FpInit ==
    /\ fp_call \in FpCalls
    /\ fp_pc = "get_filtered_peaks"
    /\ all_peak_indices = << >>
    /\ all_properties = << >>
    /\ detected_set = {}
    /\ filtered_peaks = << >>
    /\ filtered_peaks_label = ""

(***************************************************************************)
(* ReferenceDatabase (reference_pattern.py).                               *)
(* Names, ids and file stems are strings of the table Chars, which gives   *)
(* their characters.  A JSON file is [stem, kind, items]: kind "invalid"   *)
(* for a file json.load rejects, "object" for one record, "array" for a    *)
(* list; an item is Some(record) for a JSON object and None for a value    *)
(* that is not an object.  A database_path is [kind, files]: one file, a directory  *)
(* with the files rglob yields in order, or "missing".                     *)
(***************************************************************************)
Chars(s) ==
    CASE s = "" -> << >>
      [] s = "Ab" -> <<"A", "b">>
      [] s = "b c" -> <<"b", " ", "c">>
      [] s = "mp-1" -> <<"m", "p", "-", "1">>
      [] s = "mp-1_x" -> <<"m", "p", "-", "1", "_", "x">>
      [] s = "q" -> <<"q">>

Strings == {"", "Ab", "b c", "mp-1", "mp-1_x", "q"}

\* the string with the given characters
Str(cs) == CHOOSE s \in Strings : Chars(s) = cs

\* str.startswith
StartsWith(cs, prefix) ==
    Len(cs) >= Len(prefix) /\ SubSeq(cs, 1, Len(prefix)) = prefix

\* filename.split('_')[0]
RECURSIVE BeforeUnderscore(_)
BeforeUnderscore(cs) ==
    IF cs = << >> \/ cs[1] = "_" THEN << >>
    ELSE <<cs[1]>> \o BeforeUnderscore(Tail(cs))

\* lines 186-192 (197-203): an MP record with neither id nor name, in a file
\* whose name starts with 'mp-', gets the first part of the file name
WithFileNameId(rec, stem) ==
    IF /\ rec.pattern.some
       /\ rec.id = ""
       /\ rec.name = ""
       /\ StartsWith(Chars(stem), <<"m", "p", "-">>)
    THEN [rec EXCEPT !.id = Str(BeforeUnderscore(Chars(stem))),
                     !.name = Str(BeforeUnderscore(Chars(stem)))]
    ELSE rec

\* a database that puts a new pattern first
PrependPattern(patterns, pattern) == <<pattern>> \o patterns
\* self.patterns.append(pattern), lines 194, 205, 209
AppendPattern(patterns, pattern) == Append(patterns, pattern)

\* lines 184-194: the records of a file, one after the other, up to the
\* first item that is not a JSON object
RECURSIVE LoadItems(_, _, _)
LoadItems(patterns, items, stem) ==
    IF items = << >> THEN [patterns |-> patterns, raised |-> FALSE]
    ELSE IF ~items[1].some THEN [patterns |-> patterns, raised |-> TRUE]
    ELSE LoadItems(AppendPattern(patterns,
                       ReferencePattern(WithFileNameId(items[1].val, stem))),
                   Tail(items), stem)

\* _load_file, lines 176-205
load_file(patterns, file) ==
    IF file.kind = "invalid" THEN [patterns |-> patterns, raised |-> TRUE]
    ELSE LoadItems(patterns, file.items, file.stem)

\* lines 163-167: every file of a directory, each in its own try / except
RECURSIVE LoadDirectory(_, _)
LoadDirectory(patterns, files) ==
    IF files = << >> THEN patterns
    ELSE LoadDirectory(load_file(patterns, files[1]).patterns, Tail(files))

\* load_database, lines 156-167
load_database(patterns, database_path) ==
    CASE database_path.kind = "file" -> load_file(patterns, database_path.files[1])
      [] database_path.kind = "dir" ->
            [patterns |-> LoadDirectory(patterns, database_path.files),
             raised |-> FALSE]
      [] OTHER -> [patterns |-> patterns, raised |-> FALSE]

\* load_multiple_databases, lines 171-172
RECURSIVE load_multiple_databases(_, _)
load_multiple_databases(patterns, paths) ==
    IF paths = << >> THEN [patterns |-> patterns, raised |-> FALSE]
    ELSE LET first == load_database(patterns, paths[1])
         IN  IF first.raised THEN first
             ELSE load_multiple_databases(first.patterns, Tail(paths))

\* a query that is lowered and not stripped
LowerOnly(query) == Lower(query)
\* line 213: query.lower().strip()
LowerStripped(query) == Strip(Lower(query))

\* lines 217-224
SearchHit(pattern, query_lower) ==
    LET pattern_name == Lower(Chars(pattern.name))
        pattern_id == Lower(Chars(pattern.id))
    IN  \/ Contains(pattern_name, query_lower)
        \/ Contains(pattern_id, query_lower)
        \/ StartsWith(pattern_name, query_lower)
        \/ StartsWith(pattern_id, query_lower)

\* search, lines 213-227
RECURSIVE SearchFrom(_, _)
SearchFrom(patterns, query_lower) ==
    IF patterns = << >> THEN << >>
    ELSE (IF SearchHit(patterns[1], query_lower) THEN <<patterns[1]>>
          ELSE << >>) \o SearchFrom(Tail(patterns), query_lower)

search(patterns, query) == SearchFrom(patterns, LowerStripped(query))

(***************************************************************************)
(* Files, paths and calls.                                                 *)
(***************************************************************************)
DbRecord(id, name, mp) ==
    [id |-> id, name |-> name, wavelength |-> None,
     pattern |-> IF mp THEN Some(<<<<2, "hkl", 1, 0>>>>) ELSE None,
     peaks |-> IF mp THEN None
               ELSE Some(<<[d_spacing |-> 0, two_theta |-> Some(1),
                            intensity |-> 50, hkl |-> "hkl"]>>)]

DbRecords == {DbRecord("", "", TRUE), DbRecord("", "", FALSE),
              DbRecord("Ab", "", FALSE), DbRecord("", "b c", TRUE)}

JsonFile(stem, kind, items) == [stem |-> stem, kind |-> kind, items |-> items]

\* the files, in the order in which a directory lists them
DbFileList ==
    <<JsonFile("q", "invalid", << >>),
      JsonFile("mp-1_x", "object", <<Some(DbRecord("", "", TRUE))>>),
      JsonFile("q", "object", <<Some(DbRecord("", "", TRUE))>>),
      JsonFile("q", "object", <<Some(DbRecord("", "", FALSE))>>),
      JsonFile("q", "object", <<None>>),
      JsonFile("q", "array", <<Some(DbRecord("Ab", "", FALSE)), None>>),
      JsonFile("q", "array", <<Some(DbRecord("", "b c", TRUE)),
                               Some(DbRecord("Ab", "", FALSE))>>)>>

DbFiles == {DbFileList[k] : k \in 1..Len(DbFileList)}

\* the directories: at most MaxFiles of the files
DbListings ==
    {[k \in 1..Cardinality(S) |-> DbFileList[Ascending(S)[k]]] :
        S \in {T \in SUBSET (1..Len(DbFileList)) : Cardinality(T) <= MaxFiles}}

DbPaths ==
    {[kind |-> "file", files |-> <<f>>] : f \in DbFiles}
    \cup {[kind |-> "dir", files |-> fs] : fs \in DbListings}
    \cup {[kind |-> "missing", files |-> << >>]}

\* the paths that lists of paths are made of
DbListedPaths ==
    {[kind |-> "file", files |-> <<DbFileList[1]>>],
     [kind |-> "file", files |-> <<DbFileList[2]>>],
     [kind |-> "dir", files |-> <<DbFileList[1], DbFileList[4]>>],
     [kind |-> "missing", files |-> << >>]}

DbPathLists == UNION {[1..n -> DbListedPaths] : n \in 0..MaxPaths}

DbQueries == {<< >>, <<"a">>, <<"A", "B">>, <<" ", "a">>, <<"b", " ">>,
              <<" ">>, <<"c">>, <<"p", "-">>}

NoPath == [kind |-> "missing", files |-> << >>]

DbCall(op, database_path, paths, pattern, query) ==
    [op |-> op, path |-> database_path, paths |-> paths, pattern |-> pattern,
     query |-> query]

NoPattern == ReferencePattern(DbRecord("", "", FALSE))

DbReturn(raised, value) == [raised |-> raised, value |-> value]

\* load_database(database_path)
LoadDatabase ==
    /\ Len(db_patterns) <= MaxStored
    /\ \E database_path \in DbPaths :
          LET r == load_database(db_patterns, database_path)
          IN  /\ db_call' = DbCall("load_database", database_path, << >>, NoPattern,
                                   << >>)
              /\ db_patterns' = r.patterns
              /\ db_result' = DbReturn(r.raised, << >>)
    /\ UNCHANGED otherThanDb

\* load_multiple_databases(database_paths)
LoadMultipleDatabases ==
    /\ Len(db_patterns) <= MaxStored
    /\ \E paths \in DbPathLists :
          LET r == load_multiple_databases(db_patterns, paths)
          IN  /\ db_call' = DbCall("load_multiple_databases", NoPath, paths,
                                   NoPattern, << >>)
              /\ db_patterns' = r.patterns
              /\ db_result' = DbReturn(r.raised, << >>)
    /\ UNCHANGED otherThanDb

\* add_pattern(pattern)
AddPattern ==
    /\ Len(db_patterns) <= MaxStored
    /\ \E rec \in DbRecords :
          /\ db_call' = DbCall("add_pattern", NoPath, << >>,
                               ReferencePattern(rec), << >>)
          /\ db_patterns' = AppendPattern(db_patterns, ReferencePattern(rec))
    /\ db_result' = DbReturn(FALSE, << >>)
    /\ UNCHANGED otherThanDb

\* search(query)
Search ==
    /\ \E query \in DbQueries :
          /\ db_call' = DbCall("search", NoPath, << >>, NoPattern, query)
          /\ db_result' = DbReturn(FALSE, search(db_patterns, query))
    /\ UNCHANGED db_patterns
    /\ UNCHANGED otherThanDb

\* get_all()
GetAll ==
    /\ db_call' = DbCall("get_all", NoPath, << >>, NoPattern, << >>)
    /\ db_result' = DbReturn(FALSE, db_patterns)
    /\ UNCHANGED db_patterns
    /\ UNCHANGED otherThanDb

\* len(database)
DbLen ==
    /\ db_call' = DbCall("len", NoPath, << >>, NoPattern, << >>)
    /\ db_result' = DbReturn(FALSE, Len(db_patterns))
    /\ UNCHANGED db_patterns
    /\ UNCHANGED otherThanDb

DbIdle ==
    /\ db_patterns = << >>
    /\ db_call = None
    /\ db_result = None

\* ReferenceDatabase(): self.patterns = [] (line 148)
DbInit ==
    /\ db_patterns = << >>
    /\ db_call = DbCall("init", NoPath, << >>, NoPattern, << >>)
    /\ db_result = DbReturn(FALSE, << >>)

\* ProjectManager.save_reference_match (project_manager.py line 185):
\* total_reference_peaks of a match result
total_reference_peaks(result) ==
    Len(result.unmatched_reference) + Len(result.matched_peaks)

(***************************************************************************)
(* ReferencePattern.__init__ on its own: the record is in reference_data   *)
(* and the constructed pattern is stored in reference_pattern.             *)
(***************************************************************************)
\* ReferencePattern(data), lines 17-32
ConstructPattern ==
    /\ match_pc = "construct"
    /\ reference_pattern' = Some(ReferencePattern(reference_data))
    /\ match_pc' = "constructed"
    /\ UNCHANGED <<detected_peaks, reference_data, tolerance, det_pos,
                   matched_peaks, matched_ref_indices, match_result>>
    /\ UNCHANGED otherThanMatch

RawAmplitudes == {0 - 1, 0, 1, 2}

RawMPTuples == {<<a, "hkl", tt, 0>> : a \in RawAmplitudes, tt \in AngleSet}
               \cup {<<1, "hkl">>}

MPRecords ==
    {[id |-> "ref", name |-> "", wavelength |-> None,
      pattern |-> Some(p), peaks |-> None] : p \in SeqsUpTo(RawMPTuples, MaxRef)}

ConstructInit ==
    /\ detected_peaks = << >>
    /\ reference_data \in MPRecords
    /\ reference_pattern = None
    /\ tolerance = 0
    /\ match_pc = "construct"
    /\ det_pos = 1
    /\ matched_peaks = << >>
    /\ matched_ref_indices = {}
    /\ match_result = None

(***************************************************************************)
(* peak_detection.py: detect_peaks_savgol, the window length handed to     *)
(* savgol_filter for an intensity array of sg_len points.                  *)
(***************************************************************************)
\* lines 315-316
SavgolForceOdd ==
    /\ sg_pc = "detect_peaks_savgol"
    /\ window_length' = IF window_length % 2 = 0 THEN window_length + 1
                        ELSE window_length
    /\ sg_pc' = "clamp"
    /\ UNCHANGED sg_len
    /\ UNCHANGED otherThanSg

\* lines 318-319
SavgolClamp ==
    /\ sg_pc = "clamp"
    /\ window_length' = IF window_length > sg_len
                        THEN (IF sg_len % 2 = 1 THEN sg_len ELSE sg_len - 1)
                        ELSE window_length
    /\ sg_pc' = "floor"
    /\ UNCHANGED sg_len
    /\ UNCHANGED otherThanSg

\* lines 321-324: the window is raised to 3 and passed to savgol_filter
SavgolFilter ==
    /\ sg_pc = "floor"
    /\ window_length' = IF window_length < 3 THEN 3 ELSE window_length
    /\ sg_pc' = "savgol_filter"
    /\ UNCHANGED sg_len
    /\ UNCHANGED otherThanSg

SgIdle ==
    /\ sg_len = 0
    /\ window_length = 0
    /\ sg_pc = "idle"

SgInit ==
    /\ sg_len \in 1..MaxSamples
    /\ window_length \in 0..MaxWindow
    /\ sg_pc = "detect_peaks_savgol"

(***************************************************************************)
(* MainWindow (main_window.py) with its ProjectManager                     *)
(* (project_manager.py).                                                   *)
(*                                                                         *)
(* An array is written as the file it was parsed from followed by the      *)
(* processing steps applied to it, so that two arrays are equal exactly    *)
(* when they were computed the same way from the same file.  mw_heap holds *)
(* the XRDData objects; current_data and processed_data refer to them by   *)
(* position, so that two fields can name the same object.  Of the project  *)
(* folder only raw_data.json and the processed_data files are kept: the    *)
(* window reads nothing else back.                                         *)
(***************************************************************************)
SpectrumFiles == {"a.xrdml", "b.dat"}

\* file_parser.py, XRDData: lines 16-21, the arrays as parsed
ParsedArray(file) == [file |-> file, steps |-> << >>]

XRDData(two_theta, intensity) ==
    [two_theta |-> two_theta, intensity |-> intensity]

\* line 321: the XRDData that parse_xrd_file returns for a file
ParsedData(file_path) ==
    XRDData(ParsedArray(file_path), ParsedArray(file_path))

\* the result of a processing function applied to an array
ProcessedArray(array, step_name) ==
    [file |-> array.file, steps |-> Append(array.steps, step_name)]

\* file_parser.py lines 23-24: the points of a spectrum, every file above
\* holding some
PointsIn(file) == IF file = "a.xrdml" THEN 3 ELSE 2

XRDDataLen(xrd) == PointsIn(xrd.two_theta.file)

\* the object a field refers to
Deref(ref) == mw_heap[ref.val]

\* line 418, line 528: self.processed_data if self.processed_data else
\* self.current_data
DataToUse ==
    IF processed_data.some /\ XRDDataLen(Deref(processed_data)) > 0
    THEN processed_data ELSE current_data

\* allocation of one XRDData object
NewObject(heap, xrd) == Append(heap, xrd)

\* the loaded spectrum itself taken as the object to hold the result
CurrentItself == [heap |-> mw_heap, ref |-> current_data]
\* lines 376-382, 428-434: a new XRDData holding copies of the arrays of
\* current_data
CopyOfCurrent ==
    [heap |-> NewObject(mw_heap, Deref(current_data)),
     ref  |-> Some(Len(mw_heap) + 1)]

\* lines 376-384, 428-436: the object that receives the result and the
\* heap after the assignment to its intensity
StoreProcessed(result) ==
    LET target == IF processed_data = None THEN CopyOfCurrent
                  ELSE [heap |-> mw_heap, ref |-> processed_data]
    IN  [ref  |-> target.ref,
         heap |-> [target.heap EXCEPT ![target.ref.val].intensity = result]]

\* project_manager.py lines 30-71: create_project, and lines 73-102:
\* save_original_data
NewProject(file, xrd) ==
    [source_file            |-> file,
     raw_data               |-> xrd,
     background_subtraction |-> None,
     kalpha_stripping       |-> None]

\* project_manager.py lines 104-131: save_processed_data writes
\* processed_data/<step_name>.json of the current project
save_processed_data(step_name, xrd) ==
    IF current_project = 0 THEN projects
    ELSE IF step_name = "background_subtraction"
    THEN [projects EXCEPT ![current_project].background_subtraction =
                                                              Some(xrd)]
    ELSE [projects EXCEPT ![current_project].kalpha_stripping = Some(xrd)]

\* lines 1006-1007: sorted(processed_dir.glob("*.json"), reverse=True)[0],
\* kalpha_stripping.json sorting after background_subtraction.json
LatestProcessed(project) ==
    IF project.kalpha_stripping.some THEN project.kalpha_stripping
    ELSE project.background_subtraction

MwStep(op) ==
    /\ mw_ops < MaxOps
    /\ mw_ops' = mw_ops + 1
    /\ mw_call' = op

\* lines 310-352.  A cancelled dialog or a parse error changes nothing.
OpenFile ==
    /\ MwStep("open_file")
    /\ \E file_path \in SpectrumFiles, parsed \in BOOLEAN :
          IF parsed
          THEN /\ mw_heap' = NewObject(mw_heap, ParsedData(file_path))
               /\ current_data' = Some(Len(mw_heap) + 1)
               /\ processed_data' = None
               /\ projects' = Append(projects,
                                  NewProject(file_path,
                                             ParsedData(file_path)))
               /\ current_project' = Len(projects) + 1
          ELSE UNCHANGED <<mw_heap, current_data, processed_data, projects,
                           current_project>>
    /\ UNCHANGED <<mw_detected_peaks, peak_match_result, current_ref_pattern>>
    /\ UNCHANGED otherThanMw

\* lines 354-405.  subtract_background may raise, which the handler
\* reports and which changes nothing.
ApplyBackgroundSubtraction ==
    /\ MwStep("apply_background_subtraction")
    /\ \E raised \in BOOLEAN :
          IF current_data = None \/ raised
          THEN UNCHANGED <<mw_heap, processed_data, projects>>
          ELSE LET subtracted == ProcessedArray(
                                     Deref(current_data).intensity,
                                     "background_subtraction")
                   stored     == StoreProcessed(subtracted)
               IN  /\ mw_heap' = stored.heap
                   /\ processed_data' = stored.ref
                   /\ projects' = save_processed_data(
                                      "background_subtraction",
                                      stored.heap[stored.ref.val])
    /\ UNCHANGED <<current_data, current_project, mw_detected_peaks,
                   peak_match_result, current_ref_pattern>>
    /\ UNCHANGED otherThanMw

\* lines 407-457
ApplyKalphaStripping ==
    /\ MwStep("apply_kalpha_stripping")
    /\ \E raised \in BOOLEAN :
          IF current_data = None \/ raised
          THEN UNCHANGED <<mw_heap, processed_data, projects>>
          ELSE LET data_to_use == Deref(DataToUse)
                   stripped    == ProcessedArray(data_to_use.intensity,
                                            "kalpha_stripping")
                   stored      == StoreProcessed(stripped)
               IN  /\ mw_heap' = stored.heap
                   /\ processed_data' = stored.ref
                   /\ projects' = save_processed_data(
                                      "kalpha_stripping",
                                      stored.heap[stored.ref.val])
    /\ UNCHANGED <<current_data, current_project, mw_detected_peaks,
                   peak_match_result, current_ref_pattern>>
    /\ UNCHANGED otherThanMw

\* lines 526-608.  Whether a peak passes depends on the prominence chosen
\* in the window; a detected peak is written as the spectrum it was found
\* in.
DetectPeaks ==
    /\ MwStep("detect_peaks")
    /\ \E outcome \in {"raised", "none", "found"} :
          IF DataToUse = None \/ outcome = "raised"
          THEN UNCHANGED mw_detected_peaks
          ELSE mw_detected_peaks' =
                   IF outcome = "found" THEN <<Deref(DataToUse)>> ELSE << >>
    /\ UNCHANGED <<mw_heap, current_data, processed_data, projects,
                   current_project, peak_match_result, current_ref_pattern>>
    /\ UNCHANGED otherThanMw

\* lines 459-524: overlay_reference_pattern, the pattern cut to the range
\* of current_data and scaled to its largest intensity
Overlay(pattern) ==
    IF current_data = None THEN current_ref_pattern
    ELSE Some([name |-> pattern, scaled_to |-> Deref(current_data)])

\* lines 610-679.  The search of the reference database for the text of
\* the combo box finds a pattern or none.
MatchPeaksWithReference ==
    /\ MwStep("match_peaks_with_reference")
    /\ \E patterns \in {<< >>, <<"Ab">>} :
          IF Len(mw_detected_peaks) = 0 \/ patterns = << >>
          THEN UNCHANGED <<peak_match_result, current_ref_pattern>>
          ELSE /\ peak_match_result' =
                      Some([detected_peaks |-> mw_detected_peaks,
                            pattern        |-> patterns[1]])
               /\ current_ref_pattern' = Overlay(patterns[1])
    /\ UNCHANGED <<mw_heap, current_data, processed_data, projects,
                   current_project, mw_detected_peaks>>
    /\ UNCHANGED otherThanMw

\* lines 699-723
ResetData ==
    /\ MwStep("reset_data")
    /\ processed_data' = None
    /\ current_ref_pattern' = None
    /\ mw_detected_peaks' = << >>
    /\ peak_match_result' = None
    /\ UNCHANGED <<mw_heap, current_data, projects, current_project>>
    /\ UNCHANGED otherThanMw

\* lines 982-1022, with project_manager.py lines 279-291.  A folder
\* without project_info.json makes load_project raise, which changes
\* nothing.
OpenProjectPath ==
    /\ MwStep("open_project_path")
    /\ \E project_path \in 0..Len(projects) :
          IF project_path = 0
          THEN UNCHANGED <<mw_heap, current_data, processed_data,
                           current_project>>
          ELSE LET project == projects[project_path]
                   latest  == LatestProcessed(project)
                   heap    == NewObject(mw_heap, project.raw_data)
               IN  /\ current_project' = project_path
                   /\ current_data' = Some(Len(heap))
                   /\ IF latest.some
                      THEN /\ mw_heap' = NewObject(heap, latest.val)
                           /\ processed_data' = Some(Len(heap) + 1)
                      ELSE /\ mw_heap' = heap
                           /\ UNCHANGED processed_data
    /\ UNCHANGED <<projects, mw_detected_peaks, peak_match_result,
                   current_ref_pattern>>
    /\ UNCHANGED otherThanMw

MwIdle ==
    /\ mw_heap = << >>
    /\ current_data = None
    /\ processed_data = None
    /\ mw_detected_peaks = << >>
    /\ peak_match_result = None
    /\ current_ref_pattern = None
    /\ projects = << >>
    /\ current_project = 0
    /\ mw_call = "idle"
    /\ mw_ops = 0

\* lines 38-51: MainWindow.__init__, no project folder yet
MwInit ==
    /\ mw_heap = << >>
    /\ current_data = None
    /\ processed_data = None
    /\ mw_detected_peaks = << >>
    /\ peak_match_result = None
    /\ current_ref_pattern = None
    /\ projects = << >>
    /\ current_project = 0
    /\ mw_call = "__init__"
    /\ mw_ops = 0

(***************************************************************************)
(* Specifications.                                                         *)
(***************************************************************************)
MatchNext == MatchEnter \/ MatchDetected \/ MatchFinish

InitMatch == MatchInit /\ RawIdle /\ TextIdle /\ XrdmlIdle /\ DispatchIdle
    /\ BgIdle /\ MethodIdle /\ KaIdle /\ ThIdle /\ FwIdle /\ FpIdle /\ DbIdle
    /\ SgIdle /\ MwIdle

SpecMatch == InitMatch /\ [][MatchNext]_vars

RawNext == RawMethod1 \/ RawMethod2 \/ RawMethod3 \/ RawMethod4
           \/ RawRead \/ RawFilter \/ RawAngles

InitRaw == RawInit /\ MatchIdle /\ TextIdle /\ XrdmlIdle /\ DispatchIdle
    /\ BgIdle /\ MethodIdle /\ KaIdle /\ ThIdle /\ FwIdle /\ FpIdle /\ DbIdle
    /\ SgIdle /\ MwIdle

SpecRaw == InitRaw /\ [][RawNext]_vars

TextNext == DATParse \/ ASCParse \/ TXTParse

InitRoundTrip == RoundTripInit /\ MatchIdle /\ RawIdle /\ XrdmlIdle
    /\ DispatchIdle /\ BgIdle /\ MethodIdle /\ KaIdle /\ ThIdle /\ FwIdle
    /\ FpIdle /\ DbIdle /\ SgIdle /\ MwIdle

SpecRoundTrip == InitRoundTrip /\ [][TextNext]_vars

\* one file handed to the parser of its format
ParseInit ==
    /\ \/ RawInit /\ TextIdle /\ XrdmlIdle
       \/ TextInit /\ RawIdle /\ XrdmlIdle
       \/ XrdmlInit /\ RawIdle /\ TextIdle
    /\ MatchIdle /\ DispatchIdle /\ BgIdle /\ MethodIdle /\ KaIdle /\ ThIdle
    /\ FwIdle /\ FpIdle /\ DbIdle /\ SgIdle /\ MwIdle

ParseNext == RawNext \/ TextNext \/ XRDMLParse

SpecParse == ParseInit /\ [][ParseNext]_vars

InitDispatch == DispatchInit /\ MatchIdle /\ RawIdle /\ TextIdle /\ XrdmlIdle
    /\ BgIdle /\ MethodIdle /\ KaIdle /\ ThIdle /\ FwIdle /\ FpIdle /\ DbIdle
    /\ SgIdle /\ MwIdle

SpecDispatch == InitDispatch /\ [][parse_xrd_file]_vars

BgNext ==
    \/ polynomial_background
    \/ IterativeEnter \/ IterativeFit \/ IterativeFinish
    \/ rolling_ball_background
    \/ tophat_background
    \/ SnipEnter \/ SnipPass \/ SnipFinish

InitBackground == BgInit /\ MatchIdle /\ RawIdle /\ TextIdle /\ XrdmlIdle
    /\ DispatchIdle /\ MethodIdle /\ KaIdle /\ ThIdle /\ FwIdle /\ FpIdle
    /\ DbIdle /\ SgIdle /\ MwIdle

SpecBackground == InitBackground /\ [][BgNext]_vars

InitMethod == MethodInit /\ MatchIdle /\ RawIdle /\ TextIdle /\ XrdmlIdle
    /\ DispatchIdle /\ BgIdle /\ KaIdle /\ ThIdle /\ FwIdle /\ FpIdle
    /\ DbIdle /\ SgIdle /\ MwIdle

SpecMethod == InitMethod /\ [][DispatchByName]_vars

KaNext ==
    \/ RachingerCall
    \/ IterativeRachingerEnter
    \/ IterativeRachingerStep
    \/ IterativeRachingerFinal

InitKalpha == KaInit /\ MatchIdle /\ RawIdle /\ TextIdle /\ XrdmlIdle
    /\ DispatchIdle /\ BgIdle /\ MethodIdle /\ ThIdle /\ FwIdle /\ FpIdle
    /\ DbIdle /\ SgIdle /\ MwIdle

SpecKalpha == InitKalpha /\ [][KaNext]_vars

ThNext ==
    \/ ThresholdEnter
    \/ ThresholdVisit
    \/ ThresholdReturn

InitThreshold == ThInit /\ MatchIdle /\ RawIdle /\ TextIdle /\ XrdmlIdle
    /\ DispatchIdle /\ BgIdle /\ MethodIdle /\ KaIdle /\ FwIdle /\ FpIdle
    /\ DbIdle /\ SgIdle /\ MwIdle

SpecThreshold == InitThreshold /\ [][ThNext]_vars

FwNext ==
    \/ FwhmReject
    \/ FwhmLeft
    \/ FwhmRight
    \/ FwhmReturn

InitFwhm == FwInit /\ MatchIdle /\ RawIdle /\ TextIdle /\ XrdmlIdle
    /\ DispatchIdle /\ BgIdle /\ MethodIdle /\ KaIdle /\ ThIdle /\ FpIdle
    /\ DbIdle /\ SgIdle /\ MwIdle

SpecFwhm == InitFwhm /\ [][FwNext]_vars

FpNext ==
    \/ FilteredFind
    \/ FilteredCollect
    \/ ShowFilteredPeaks

InitFiltered == FpInit /\ MatchIdle /\ RawIdle /\ TextIdle /\ XrdmlIdle
    /\ DispatchIdle /\ BgIdle /\ MethodIdle /\ KaIdle /\ ThIdle /\ FwIdle
    /\ DbIdle /\ SgIdle /\ MwIdle

SpecFiltered == InitFiltered /\ [][FpNext]_vars

DbNext ==
    \/ LoadDatabase
    \/ LoadMultipleDatabases
    \/ AddPattern
    \/ Search
    \/ GetAll
    \/ DbLen

InitDatabase == DbInit /\ MatchIdle /\ RawIdle /\ TextIdle /\ XrdmlIdle
    /\ DispatchIdle /\ BgIdle /\ MethodIdle /\ KaIdle /\ ThIdle /\ FwIdle
    /\ FpIdle /\ SgIdle /\ MwIdle

SpecDatabase == InitDatabase /\ [][DbNext]_vars

InitPattern == ConstructInit /\ RawIdle /\ TextIdle /\ XrdmlIdle
    /\ DispatchIdle /\ BgIdle /\ MethodIdle /\ KaIdle /\ ThIdle /\ FwIdle
    /\ FpIdle /\ DbIdle /\ SgIdle /\ MwIdle

SpecPattern == InitPattern /\ [][ConstructPattern]_vars

SgNext ==
    \/ SavgolForceOdd
    \/ SavgolClamp
    \/ SavgolFilter

InitSavgol == SgInit /\ MatchIdle /\ RawIdle /\ TextIdle /\ XrdmlIdle
    /\ DispatchIdle /\ BgIdle /\ MethodIdle /\ KaIdle /\ ThIdle /\ FwIdle
    /\ FpIdle /\ DbIdle /\ MwIdle

SpecSavgol == InitSavgol /\ [][SgNext]_vars

MwNext ==
    \/ OpenFile
    \/ ApplyBackgroundSubtraction
    \/ ApplyKalphaStripping
    \/ DetectPeaks
    \/ MatchPeaksWithReference
    \/ ResetData
    \/ OpenProjectPath

InitWindow == MwInit /\ MatchIdle /\ RawIdle /\ TextIdle /\ XrdmlIdle
    /\ DispatchIdle /\ BgIdle /\ MethodIdle /\ KaIdle /\ ThIdle /\ FwIdle
    /\ FpIdle /\ DbIdle /\ SgIdle

SpecWindow == InitWindow /\ [][MwNext]_vars

(***************************************************************************)
(* Properties of the matcher (checked under SpecMatch).                    *)
(***************************************************************************)
RefCount == IF reference_pattern.two_theta.some
            THEN Len(reference_pattern.two_theta.val) ELSE 0
RefIndices == 1..RefCount
Dist(k, i) == Abs(detected_peaks[k] - reference_pattern.two_theta.val[i])
PairDet(p) == matched_peaks[p][1]
PairRef(p) == matched_peaks[p][2][1]
PairedDetected == {PairDet(p) : p \in 1..Len(matched_peaks)}
\* reference indices paired with a detected peak that comes before peak k
TakenBefore(k) == {PairRef(q) : q \in {r \in 1..Len(matched_peaks) :
                                          PairDet(r) < k}}
AvailableAt(k) == RefIndices \ TakenBefore(k)
Processed == 1..(det_pos - 1)

\* C1: detected peaks are processed in input order; each pair joins the
\* detected peak with the reference peak of smallest distance among those
\* strictly closer than tolerance and not paired with an earlier detected
\* peak, the lowest index winning on equal distances; a processed peak without
\* a pair had no such reference peak; no reference index is paired twice.
C1_GreedyClosestAvailable ==
    /\ \A p, q \in 1..Len(matched_peaks) :
          p < q => /\ PairDet(p) < PairDet(q)
                   /\ PairRef(p) # PairRef(q)
    /\ \A p \in 1..Len(matched_peaks) :
          LET k == PairDet(p)
              i == PairRef(p)
          IN  /\ k \in Processed
              /\ i \in AvailableAt(k)
              /\ Dist(k, i) < tolerance
              /\ matched_peaks[p][2][2] = reference_pattern.two_theta.val[i]
              /\ \A j \in AvailableAt(k) :
                    \/ Dist(k, i) < Dist(k, j)
                    \/ Dist(k, i) = Dist(k, j) /\ i <= j
    /\ \A k \in Processed \ PairedDetected :
          \A j \in AvailableAt(k) : ~(Dist(k, j) < tolerance)

\* a later detected peak was refused a reference peak that is closer to it
\* than the one it received, because an earlier peak holds it
C1_Witness ==
    /\ match_pc = "done"
    /\ \E p \in 1..Len(matched_peaks) :
          \E j \in TakenBefore(PairDet(p)) :
             Dist(PairDet(p), j) < Dist(PairDet(p), PairRef(p))

\* C2: with a single reference peak and two detected peaks <<A, B>> both
\* closer to it than tolerance, the first of the list is matched and the
\* second is unmatched; detected_peaks ranges over both orders of every A, B.
BothNearSingleReference ==
    /\ Len(detected_peaks) = 2
    /\ RefCount = 1
    /\ Dist(1, 1) < tolerance
    /\ Dist(2, 1) < tolerance

C2_FirstComeFirstServed ==
    (match_pc = "done" /\ BothNearSingleReference) =>
        /\ Len(match_result.val.matched_peaks) = 1
        /\ match_result.val.matched_peaks[1][1] = 1
        /\ match_result.val.matched_peaks[1][2][1] = 1
        /\ match_result.val.unmatched_detected = <<2>>

C2_Witness ==
    /\ match_pc = "done"
    /\ BothNearSingleReference
    /\ Dist(2, 1) < Dist(1, 1)
    /\ match_result.val.matched_peaks[1][1] = 1
    /\ match_result.val.unmatched_detected = <<2>>

\* C3: the score is matched_count / total_reference_peak_count * 100 when the
\* reference has a peak and 0 otherwise; it lies in [0, 100] because the
\* matched pairs never outnumber the reference peaks.
C3_ScoreInRange ==
    match_pc = "done" =>
        LET score   == match_result.val.match_score
            matched == Len(match_result.val.matched_peaks)
        IN  /\ score[2] > 0
            /\ IF RefCount > 0
               THEN score[1] * RefCount = matched * 100 * score[2]
               ELSE score[1] = 0
            /\ 0 <= score[1]
            /\ score[1] <= 100 * score[2]
            /\ matched <= RefCount

C3_Witness ==
    /\ match_pc = "done"
    /\ Len(match_result.val.matched_peaks) = 1
    /\ RefCount = 2
    /\ match_result.val.match_score = <<100, 2>>

\* C4: a reference record without peaks (neither key, an empty pattern or
\* peaks list, or a pattern of too-short tuples only) is matched without an
\* error: score 0, no pair, no unmatched reference peak, every detected peak
\* unmatched.
RecordHasNoPeaks(rec) ==
    \/ ~rec.pattern.some /\ ~rec.peaks.some
    \/ rec.pattern.some /\ \A k \in 1..Len(rec.pattern.val) :
                                Len(rec.pattern.val[k]) < 4
    \/ ~rec.pattern.some /\ rec.peaks.some /\ rec.peaks.val = << >>

C4_EmptyReferenceIsHandled ==
    RecordHasNoPeaks(reference_data) =>
        /\ match_pc \in {"start", "loop", "done"}
        /\ match_pc = "done" =>
              /\ match_result.val.match_score[1] = 0
              /\ match_result.val.matched_peaks = << >>
              /\ match_result.val.unmatched_reference = << >>
              /\ match_result.val.unmatched_detected =
                    [k \in 1..Len(detected_peaks) |-> k]

C4_Witness ==
    /\ match_pc = "done"
    /\ reference_data.pattern.some
    /\ reference_data.pattern.val # << >>
    /\ RecordHasNoPeaks(reference_data)
    /\ Len(detected_peaks) = 2
    /\ match_result.val.unmatched_detected = <<1, 2>>

\* C5 as stated: a processed detected peak is unmatched exactly when every
\* reference peak still unpaired at its turn is farther away than tolerance,
\* so that a distance equal to tolerance is matched.
C5_ToleranceInclusive ==
    \A k \in Processed :
        (k \notin PairedDetected) <=>
            (\A j \in AvailableAt(k) : Dist(k, j) > tolerance)

\* C5 amended: a processed detected peak is unmatched exactly when every
\* reference peak still unpaired at its turn is at a distance of at least
\* tolerance; a distance equal to tolerance is not matched.
C5_ToleranceExclusive ==
    \A k \in Processed :
        (k \notin PairedDetected) <=>
            (\A j \in AvailableAt(k) : Dist(k, j) >= tolerance)

C5_Witness ==
    /\ match_pc = "done"
    /\ \E k \in 1..Len(detected_peaks) :
          /\ k \notin PairedDetected
          /\ \E j \in AvailableAt(k) : Dist(k, j) = tolerance

(***************************************************************************)
(* Properties of RAWParser (checked under SpecRaw).                        *)
(***************************************************************************)
RawFailed == raw_pc \in {"ValueError", "TypeError"}

\* the file is a count N in [100, 100000] followed by exactly N float32
\* values, all finite and below 1e10
IsCountPrefixed ==
    /\ Len(data) >= 4
    /\ InCountRange(WordAt(data, 0))
    /\ Len(data) = 4 + 4 * WordAt(data, 0).lo
    /\ \A k \in 1..WordAt(data, 0).lo : IsValid(WordAt(data, 4 * k))

\* C6: a count N followed by N valid float32 values is located by the first
\* strategy at data offset 4 and parsed to a spectrum of length N whose
\* intensities are the written values in the written order.
C6_CountPrefixedRecovered ==
    IsCountPrefixed =>
        LET n == WordAt(data, 0).lo IN
        /\ ~RawFailed
        /\ raw_pc # "method1" =>
              data_count.some /\ data_offset = Some(4)
        /\ raw_pc = "done" =>
              /\ Len(intensities) = n
              /\ \A k \in 1..n : intensities[k] = WordAt(data, 4 * k)
              /\ two_thetas.val.num = n

C6_Witness ==
    /\ raw_pc = "done"
    /\ IsCountPrefixed
    /\ Len(intensities) = MinCount + 1
    /\ intensities[1] # intensities[2]

\* C7: the four strategies are tried in order until both a data offset and a
\* data count are known; the parse ends with a spectrum or with ValueError,
\* never with another failure, and the intensities are read only with a data
\* offset and a data count defined.
C7_StrategiesLeaveOffsetDefined ==
    /\ raw_pc \in {"method1", "method2", "method3", "method4", "read",
                   "filter", "angles", "done", "ValueError"}
    /\ raw_pc = "read" => data_count.some /\ data_offset.some

\* C8: the returned intensities are exactly the finite values below 1e10
\* among the float32 values read, in their order, negative values included;
\* no other value is returned, and the angle array has the same length.
C8_OnlyValidValuesReturned ==
    /\ [][raw_pc = "filter" =>
             intensities' = SelectSeq(intensities, IsValid)]_vars
    /\ [](raw_pc = "done" =>
             /\ \A k \in 1..Len(intensities) : IsValid(intensities[k])
             /\ two_thetas.val.num = Len(intensities))

(***************************************************************************)
(* Properties of the delimited-text parsers.                               *)
(***************************************************************************)
TextParsed == text_pc # "start" /\ written.some

RecoveredPair(k) == <<text_result.val.two_theta[k], text_result.val.intensity[k]>>

\* C10: a file written one pair per line with a delimiter the variant
\* accepts parses successfully, and the parser recovers as many pairs as were
\* written, in the written order, with the written values.
C10_RoundTripRecoversWrittenPairs ==
    TextParsed =>
        /\ text_pc = "done"
        /\ Len(text_result.val.two_theta) = Len(written.val.pairs)
        /\ Len(text_result.val.intensity) = Len(written.val.pairs)
        /\ \A k \in 1..Len(written.val.pairs) :
              /\ NumEq(RecoveredPair(k)[1], Decimal(written.val.pairs[k][1]))
              /\ NumEq(RecoveredPair(k)[2], Decimal(written.val.pairs[k][2]))

(***************************************************************************)
(* Properties common to the five parsers.                                  *)
(***************************************************************************)
EqualLengthNonEmpty(two_theta, intensity) ==
    Len(two_theta) = Len(intensity) /\ Len(intensity) >= 1

\* a line of the file yields a pair under the variant's rules
TextHasValidPair ==
    \E i \in 1..Len(lines) : LinePair(lines[i], text_kind).some

\* a value read from the data block is a valid intensity
RawHasValidValue ==
    \E k \in 1..Len(intensities) : IsValid(intensities[k])

\* C9: whichever parser runs, a successful parse returns angle and intensity
\* arrays of the same length, at least 1, and a file from which no valid
\* pair can be extracted makes the parser fail instead of returning.
C9_SuccessMeansValidNonEmpty ==
    /\ raw_pc = "done" =>
          /\ two_thetas.some
          /\ two_thetas.val.num = Len(intensities)
          /\ Len(intensities) >= 1
          /\ RawHasValidValue
    /\ text_pc = "done" =>
          /\ EqualLengthNonEmpty(text_result.val.two_theta,
                                 text_result.val.intensity)
          /\ TextHasValidPair
    /\ xrdml_pc = "done" =>
          EqualLengthNonEmpty(xrdml_result.val.two_theta,
                              xrdml_result.val.intensity)

(***************************************************************************)
(* Properties of parse_xrd_file (checked under SpecDispatch).              *)
(***************************************************************************)
KnownSuffix == ParserOfSuffix(Lower(path.suffix)).some

HasMarkupSignature ==
    \/ Contains(Lower(path.first_line), SigXrdml)
    \/ Contains(path.first_line, SigXmlDecl)

\* C11: a recognised extension, compared in lower case, selects its parser;
\* otherwise a first line with a markup signature selects the XRDML parser,
\* other text selects the TXT parser, and content that cannot be decoded as
\* text selects the RAW parser.
C11_DispatchByExtensionThenContent ==
    (dispatch_pc = "done" /\ ~path.is_dir) =>
        IF KnownSuffix THEN selected = ParserOfSuffix(Lower(path.suffix)).val
        ELSE IF ~path.decodable THEN selected = "RAW"
        ELSE IF HasMarkupSignature THEN selected = "XRDML"
        ELSE selected = "TXT"

(***************************************************************************)
(* Properties of the background methods (checked under SpecBackground).    *)
(***************************************************************************)
BgDone == bg_pc = "done"

\* C12: whichever of the five methods ran, the returned arrays satisfy
\* corrected[j] = intensity[j] - background[j] at every index, intensity
\* being the array the caller passed, which is left unmodified.
C12_CorrectedIsIntensityMinusBackground ==
    BgDone =>
        /\ bg_intensity = bg_call.intensity
        /\ Len(background) = Len(bg_call.intensity)
        /\ Len(corrected) = Len(bg_call.intensity)
        /\ \A j \in 1..Len(bg_call.intensity) :
              corrected[j] = QSub(bg_call.intensity[j], background[j])

\* a SNIP run that clipped something has returned
C12_Witness ==
    /\ BgDone
    /\ bg_call.kwargs.method = "snip"
    /\ background # bg_call.intensity
    /\ \E j \in 1..Len(corrected) : corrected[j] # QZero

SingleIteration ==
    /\ bg_call.kwargs.method = "iterative_polynomial"
    /\ bg_call.kwargs.iterations = 1

\* what polynomial_background returns for the same spectrum and degree
PolynomialResult ==
    PolyFitEval(TwoThetaOf(bg_call.intensity), bg_call.intensity,
                bg_call.kwargs.degree, TwoThetaOf(bg_call.intensity))

\* C14: with iterations = 1 the iterative method fits once over the
\* all-points mask, never updates the mask, and returns the background and
\* corrected arrays of polynomial_background with the same degree, whatever
\* the threshold.
C14_SingleIterationIsPolynomial ==
    SingleIteration =>
        /\ bg_pc = "iterative_loop" =>
              /\ bg_round \in {0, 1}
              /\ \A k \in 1..Len(bg_mask) : bg_mask[k]
        /\ BgDone =>
              /\ bg_round = 1
              /\ \A k \in 1..Len(bg_mask) : bg_mask[k]
              /\ ~PolynomialResult.raised
              /\ background = PolynomialResult.value
              /\ corrected = QSeqSub(bg_call.intensity, PolynomialResult.value)

\* a single-iteration run has returned for a spectrum with a point whose
\* residual reaches the threshold
C14_Witness ==
    /\ SingleIteration
    /\ BgDone
    /\ \E k \in 1..Len(bg_call.intensity) :
          ~UpdatedMask(bg_call.intensity, background,
                       bg_call.kwargs.threshold)[k]

SnipPassTaken == bg_pc = "snip_loop" /\ bg_round' = bg_round + 1

InputIsNonNegative ==
    \A j \in 1..Len(bg_call.intensity) : QLe(QZero, bg_call.intensity[j])

\* C15 as stated: after every SNIP clipping pass the background at every
\* index is not larger in absolute value than before the pass, also for
\* spectra with negative intensities.
C15_SnipAbsoluteValueNonIncreasing ==
    [][SnipPassTaken =>
         \A j \in 1..Len(background) :
            QLe(QAbs(background'[j]), QAbs(background[j]))]_vars

\* C15 amended: after every SNIP clipping pass the background at every
\* index is not larger, as a signed value, than before the pass; it is not
\* larger in absolute value when no input intensity is negative.
C15_SnipNonIncreasing ==
    [][SnipPassTaken =>
         \A j \in 1..Len(background) :
            /\ QLe(background'[j], background[j])
            /\ InputIsNonNegative =>
                  QLe(QAbs(background'[j]), QAbs(background[j]))]_vars

\* two passes have run on a spectrum with a negative intensity and clipped it
C15_Witness ==
    /\ bg_pc = "snip_loop"
    /\ bg_round = 2
    /\ ~InputIsNonNegative
    /\ background # bg_call.intensity

(***************************************************************************)
(* Properties of the dispatchers by name (checked under SpecMethod).       *)
(***************************************************************************)
ValidNames(dispatcher) ==
    {TableOf(dispatcher)[k][1] : k \in 1..Len(TableOf(dispatcher))}

RegisteredAlgorithm(dispatcher, method) ==
    LET table == TableOf(dispatcher) IN
    table[CHOOSE k \in 1..Len(table) : table[k][1] = method][2]

\* C13: in each dispatcher a name outside its table raises an error that
\* lists the valid names and runs no algorithm; a name inside the table runs
\* the algorithm registered under it, and every keyword argument of the
\* caller reaches it with the caller's value (strip_kalpha adds the ratio of
\* the closest known wavelength when the caller gave a wavelength and no
\* ratio, and nothing else is added).
C13_UnknownMethodIsAnError ==
    method_pc # "start" =>
        IF request.method \notin ValidNames(request.dispatcher)
        THEN /\ method_pc = "ValueError"
             /\ invoked = None
             /\ error_lists = Some(Keys(TableOf(request.dispatcher)))
        ELSE /\ method_pc = "called"
             /\ invoked.some
             /\ invoked.val.algorithm =
                   RegisteredAlgorithm(request.dispatcher, request.method)
             /\ request.kwargs \subseteq invoked.val.kwargs
             /\ \A p \in invoked.val.kwargs \ request.kwargs :
                   /\ request.dispatcher = "strip_kalpha"
                   /\ request.wavelength.some
                   /\ p[1] = "wavelength_ratio"
                   /\ ~HasKey(request.kwargs, "wavelength_ratio")

\* a name of another dispatcher's table was refused
C13_Witness ==
    /\ method_pc = "ValueError"
    /\ request.dispatcher = "detect_peaks"
    /\ request.method = "snip"
    /\ request.kwargs # {}

(***************************************************************************)
(* Properties of the K-alpha stripper (checked under SpecKalpha).          *)
(***************************************************************************)
KaDone == ka_pc = "done"

ZeroIntensityRatio == ka_call.intensity_ratio = QZero

AllZero(values) == \A j \in 1..Len(values) : values[j] = QZero

\* C16 as stated: with intensity_ratio = 0, for every spectrum (also one
\* with negative intensities) and every wavelength_ratio, kalpha2 is zero at
\* every point and kalpha1 equals the input intensity at every point.
C16_RachingerIdentity ==
    (KaDone /\ ZeroIntensityRatio) =>
        /\ AllZero(kalpha2)
        /\ kalpha1 = ka_call.intensity

\* C16 amended: with intensity_ratio = 0, for every spectrum and every
\* wavelength_ratio, kalpha2 is zero at every point and kalpha1 at every
\* point is the input intensity clamped at zero, max(intensity, 0): the
\* input itself where it is not negative, 0 where it is.
C16_RachingerIdentityClamped ==
    (KaDone /\ ZeroIntensityRatio) =>
        /\ AllZero(kalpha2)
        /\ Len(kalpha1) = Len(ka_call.intensity)
        /\ \A j \in 1..Len(ka_call.intensity) :
              kalpha1[j] = IF QLt(ka_call.intensity[j], QZero) THEN QZero
                           ELSE ka_call.intensity[j]

\* the correction has run with intensity_ratio = 0 on a spectrum with a
\* negative and a positive intensity, with a shift that is not zero
C16_Witness ==
    /\ KaDone
    /\ ZeroIntensityRatio
    /\ ka_call.method = "rachinger"
    /\ ka_call.wavelength_ratio # QInt(1)
    /\ \E j \in 1..Len(ka_call.intensity) : QLt(ka_call.intensity[j], QZero)
    /\ \E j \in 1..Len(ka_call.intensity) : QLt(QZero, ka_call.intensity[j])

\* a single correction of the caller's spectrum with the caller's ratios
SingleCorrection ==
    rachinger_correction(TwoThetaOf(ka_call.intensity), ka_call.intensity,
                         ka_call.wavelength_ratio, ka_call.intensity_ratio)

StrictWindowMaximum(intensity, i, min_distance) ==
    \A j \in 0..(Len(intensity) - 1) :
        (j # i /\ j >= i - min_distance /\ j <= i + min_distance) =>
            QLt(At(intensity, j), At(intensity, i))

ExpectedPeakIndices ==
    {i \in 0..(Len(th_call.intensity) - 1) :
        /\ QLt(th_threshold, At(th_call.intensity, i))
        /\ StrictWindowMaximum(th_call.intensity, i, th_call.min_distance)}

\* C18: detect_peaks_threshold returns, in ascending index order, exactly
\* the indices i with intensity[i] > threshold whose intensity is strictly
\* greater than that of every other index within min_distance of i, the
\* window being clipped at the spectrum ends; an equal neighbour
\* disqualifies i.
C18_ThresholdPeaksAreStrictWindowMaxima ==
    th_pc = "done" =>
        /\ {th_peaks[k].index : k \in 1..Len(th_peaks)} = ExpectedPeakIndices
        /\ \A k \in 1..(Len(th_peaks) - 1) :
              th_peaks[k].index < th_peaks[k + 1].index

(***************************************************************************)
(* Properties of calculate_fwhm (checked under SpecFwhm).                  *)
(***************************************************************************)
FwAngles == TwoThetaOf(fw_call.intensity)

FwValidPeak ==
    /\ fw_call.peak_index >= 0
    /\ fw_call.peak_index < Len(fw_call.intensity)
    /\ QLt(QZero, At(fw_call.intensity, fw_call.peak_index))

\* no sample from the first one to the peak is at or below half the peak
LeftBoundaryReached ==
    \A j \in 0..fw_call.peak_index : QLt(fw_half_max, At(fw_call.intensity, j))

\* no sample from the peak to the last one is at or below half the peak
RightBoundaryReached ==
    \A j \in fw_call.peak_index..(Len(fw_call.intensity) - 1) :
        QLt(fw_half_max, At(fw_call.intensity, j))

\* C19: for a peak index with positive intensity the left half-maximum
\* crossing lies between the first sample's angle and the peak angle and the
\* right crossing between the peak angle and the last sample's angle; when
\* the boundary is reached before the intensity drops to half the peak, the
\* crossing is the angle of the first (last) sample; the result is null when
\* the peak intensity is <= 0 or the width is <= 0.
C19_FwhmCrossingsWithinSpectrum ==
    fw_pc = "done" =>
        IF FwValidPeak
        THEN /\ QLe(At(FwAngles, 0), left_2theta)
             /\ QLe(left_2theta, At(FwAngles, fw_call.peak_index))
             /\ QLe(At(FwAngles, fw_call.peak_index), right_2theta)
             /\ QLe(right_2theta, At(FwAngles, Len(FwAngles) - 1))
             /\ LeftBoundaryReached => left_2theta = At(FwAngles, 0)
             /\ RightBoundaryReached =>
                    right_2theta = At(FwAngles, Len(FwAngles) - 1)
             /\ QLe(QSub(right_2theta, left_2theta), QZero) => fwhm = None
        ELSE fwhm = None

(***************************************************************************)
(* Properties of get_filtered_peaks (checked under SpecFiltered).          *)
(***************************************************************************)
FpDistance ==
    IF fp_call.distance.some THEN fp_call.distance.val
    ELSE AutoDistance(TwoThetaOf(fp_call.intensity))

\* the local maxima left by the distance condition alone
Candidates == SelectByDistance(fp_call.intensity,
                               LocalMaxima(fp_call.intensity), {}, FpDistance)

\* the peaks accepted under the prominence threshold
Accepted ==
    {p \in Candidates :
        QLe(fp_call.prominence_threshold, Prominence(fp_call.intensity, p))}

NearThreshold ==
    {p \in Candidates \ Accepted :
        QLe(SignificantFloor(fp_call.prominence_threshold),
            Prominence(fp_call.intensity, p))}

\* C20: get_filtered_peaks returns every candidate found under the distance
\* condition alone that is not an accepted peak and whose prominence is at
\* least 30% of the configured threshold, and no other; the result is
\* non-empty whenever there is such a candidate.
C20_FilteredPeaksAreNearThresholdCandidates ==
    fp_pc = "done" =>
        /\ {filtered_peaks[k].index : k \in 1..Len(filtered_peaks)}
              = NearThreshold
        /\ NearThreshold # {} => Len(filtered_peaks) > 0

(***************************************************************************)
(* Properties of ReferenceDatabase (checked under SpecDatabase).           *)
(***************************************************************************)
\* the step is a call of the named operation
DbCalled(op) == db_call'.op = op

\* the query is a substring of the pattern's name or id, both lowered
ContainsQuery(pattern, query) ==
    \/ Contains(Lower(Chars(pattern.name)), query)
    \/ Contains(Lower(Chars(pattern.id)), query)

RECURSIVE PatternsContaining(_, _)
PatternsContaining(patterns, query) ==
    IF patterns = << >> THEN << >>
    ELSE (IF ContainsQuery(patterns[1], query) THEN <<patterns[1]>>
          ELSE << >>) \o PatternsContaining(Tail(patterns), query)

\* C21 as stated: search(query) returns, in insertion order, exactly the
\* patterns whose lowered name or id contains the lowered query as given,
\* and leaves the collection unchanged.
C21_SearchReturnsSubstringMatches ==
    [][DbCalled("search") =>
          /\ db_patterns' = db_patterns
          /\ db_result'.value =
                PatternsContaining(db_patterns, Lower(db_call'.query))]_vars

\* C21 amended: search(query) returns, in insertion order, exactly the
\* patterns whose lowered name or id contains the query after it has been
\* lowered and stripped of leading and trailing whitespace, and leaves the
\* collection unchanged; a query of whitespace only returns every pattern.
C21_SearchReturnsStrippedSubstringMatches ==
    [][DbCalled("search") =>
          /\ db_patterns' = db_patterns
          /\ db_result'.value =
                PatternsContaining(db_patterns,
                                   Strip(Lower(db_call'.query)))]_vars

\* a search whose query has surrounding whitespace returned a pattern and
\* left another one out
C21_Witness ==
    /\ db_call.op = "search"
    /\ db_call.query # Strip(db_call.query)
    /\ Len(db_result.value) > 0
    /\ Len(db_result.value) < Len(db_patterns)


\* C22: under any sequence of load_database, load_multiple_databases,
\* add_pattern, search, get_all and len calls the collection changes only by
\* appending: its length never decreases and every pattern already inserted
\* keeps its position, id, name and peak arrays.
C22_PatternsOnlyAppended ==
    [][/\ Len(db_patterns') >= Len(db_patterns)
       /\ SubSeq(db_patterns', 1, Len(db_patterns)) = db_patterns]_vars

\* one file was loaded into a database that already held another pattern
C22_Witness ==
    /\ db_call.op = "load_database"
    /\ db_call.path.kind = "file"
    /\ Len(db_patterns) >= 2
    /\ db_patterns[1].id = "Ab"
    /\ db_patterns[Len(db_patterns)].id = "mp-1"


\* the patterns of a file when its load succeeds, none when it raises
SuccessfullyLoaded(file) ==
    LET r == load_file(<< >>, file)
    IN  IF r.raised THEN << >> ELSE r.patterns

RECURSIVE LoadedFromFiles(_)
LoadedFromFiles(files) ==
    IF files = << >> THEN << >>
    ELSE SuccessfullyLoaded(files[1]) \o LoadedFromFiles(Tail(files))

RECURSIVE LoadedFromPaths(_)
LoadedFromPaths(paths) ==
    IF paths = << >> THEN << >>
    ELSE LoadedFromFiles(paths[1].files) \o LoadedFromPaths(Tail(paths))

\* C23: when a database is loaded from one or more directory or file paths,
\* a file whose load raises is skipped: nothing propagates, the remaining
\* files and paths are loaded, and the database gains exactly the patterns
\* of the files that loaded successfully.
C23_FailedFileIsSkipped ==
    [][/\ DbCalled("load_database") =>
             /\ ~db_result'.raised
             /\ db_patterns' =
                   db_patterns \o LoadedFromFiles(db_call'.path.files)
       /\ DbCalled("load_multiple_databases") =>
             /\ ~db_result'.raised
             /\ db_patterns' =
                   db_patterns \o LoadedFromPaths(db_call'.paths)]_vars


\* the step loads files
DbLoaded == DbCalled("load_database") \/ DbCalled("load_multiple_databases")

\* C24: every pattern loaded from a file whose record carries neither an id
\* nor a name (MP or ICDD schema, whatever the file name) has a non-empty id
\* and name synthesized from the file name; a record that carries one of the
\* two gets both from the constructor, so every loaded pattern has both.
C24_LoadedPatternHasIdAndName ==
    [][DbLoaded =>
          \A k \in (Len(db_patterns) + 1)..Len(db_patterns') :
              db_patterns'[k].id # "" /\ db_patterns'[k].name # ""]_vars

(***************************************************************************)
(* Properties of ReferencePattern (checked under SpecPattern).             *)
(***************************************************************************)
\* the amplitudes of the tuples that are stored
StoredAmplitudes ==
    LET full == SelectSeq(reference_data.pattern.val, IsFullTuple)
    IN  [k \in 1..Len(full) |-> full[k][1]]

Constructed ==
    /\ match_pc = "constructed"
    /\ reference_pattern.val.intensity.some
    /\ Len(reference_pattern.val.intensity.val) > 0

\* the stored intensities, fractions <<numerator, denominator>>
StoredIntensity == reference_pattern.val.intensity.val

IsHundred(f) == f[1] = 100 * f[2]
AtMostHundred(f) == f[1] <= 100 * f[2]
NotNegative(f) == f[1] >= 0

\* C25 as stated: for every pattern built from an MP record with at least
\* one peak the stored intensities have maximum exactly 100 and all lie in
\* [0, 100].
C25_MaximumIsHundred ==
    Constructed =>
        /\ \E k \in 1..Len(StoredIntensity) : IsHundred(StoredIntensity[k])
        /\ \A k \in 1..Len(StoredIntensity) :
              NotNegative(StoredIntensity[k]) /\ AtMostHundred(StoredIntensity[k])

\* C25 amended: for every pattern built from an MP record with at least one
\* stored peak whose largest amplitude is positive, the stored intensities
\* are amplitude / max * 100: their maximum is exactly 100, none exceeds
\* 100, and all lie in [0, 100] when no amplitude is negative.  When the
\* largest amplitude is zero or negative the amplitudes are stored as they
\* are.
C25_MaximumIsHundredForPositiveMaximum ==
    Constructed =>
        IF SeqMax(StoredAmplitudes) > 0
        THEN /\ \E k \in 1..Len(StoredIntensity) :
                   IsHundred(StoredIntensity[k])
             /\ \A k \in 1..Len(StoredIntensity) :
                   /\ AtMostHundred(StoredIntensity[k])
                   /\ StoredIntensity[k][1] * SeqMax(StoredAmplitudes)
                         = StoredAmplitudes[k] * 100 * StoredIntensity[k][2]
                   /\ StoredAmplitudes[k] >= 0 =>
                         NotNegative(StoredIntensity[k])
        ELSE \A k \in 1..Len(StoredIntensity) :
                 StoredIntensity[k] = <<StoredAmplitudes[k], 1>>

\* a pattern with two different positive amplitudes has been normalized
C25_Witness ==
    /\ Constructed
    /\ Len(StoredIntensity) >= 2
    /\ \E j, k \in 1..Len(StoredIntensity) :
          /\ StoredAmplitudes[j] > 0
          /\ StoredAmplitudes[k] > StoredAmplitudes[j]
          /\ ~IsHundred(StoredIntensity[j])

(***************************************************************************)
(* The match result as a partition (checked under SpecMatch).              *)
(***************************************************************************)
ResultPairs == match_result.val.matched_peaks
ResultDetected == {ResultPairs[p][1] : p \in 1..Len(ResultPairs)}
ResultReference == {ResultPairs[p][2][1] : p \in 1..Len(ResultPairs)}
ResultUnmatchedDetected ==
    {match_result.val.unmatched_detected[k] :
        k \in 1..Len(match_result.val.unmatched_detected)}

\* the reference peaks that no pair holds, with angle and intensity
ReferenceLeftOver ==
    SelectSeq([i \in 1..RefCount |-> i],
              LAMBDA i : i \notin ResultReference)

\* C26: the match result partitions both sides: each detected peak is in
\* exactly one of matched_peaks and unmatched_detected, each reference index
\* in exactly one of matched_peaks and unmatched_reference, no reference
\* index is in two pairs, and len(matched) + len(unmatched_reference), the
\* total_reference_peaks that is saved, is the number of reference peaks.
C26_MatchResultIsPartition ==
    (match_pc = "done" /\ match_result.some) =>
        /\ Cardinality(ResultDetected) = Len(ResultPairs)
        /\ Cardinality(ResultReference) = Len(ResultPairs)
        /\ ResultDetected \cap ResultUnmatchedDetected = {}
        /\ ResultDetected \cup ResultUnmatchedDetected
              = 1..Len(detected_peaks)
        /\ Cardinality(ResultUnmatchedDetected)
              = Len(match_result.val.unmatched_detected)
        /\ ResultReference \subseteq RefIndices
        /\ Len(match_result.val.unmatched_reference) = Len(ReferenceLeftOver)
        /\ \A k \in 1..Len(ReferenceLeftOver) :
              match_result.val.unmatched_reference[k][1]
                 = reference_pattern.two_theta.val[ReferenceLeftOver[k]]
        /\ total_reference_peaks(match_result.val) = RefCount

\* a result with a pair, an unmatched detected peak and an unmatched
\* reference peak
C26_Witness ==
    /\ match_pc = "done"
    /\ match_result.some
    /\ Len(ResultPairs) >= 1
    /\ Len(match_result.val.unmatched_detected) >= 1
    /\ Len(match_result.val.unmatched_reference) >= 1

(***************************************************************************)
(* The shape of the SNIP background (checked under SpecBackground).        *)
(***************************************************************************)
SnipDefaultCall ==
    /\ bg_call.kwargs.method = "snip"
    /\ bg_call.kwargs.iterations = DefaultSnipIterations
    /\ bg_call.kwargs.reduction_factor = DefaultReductionFactor

\* C27: for an input of at least 3 points and default parameters the
\* background returned by snip_background is non-increasing in index,
\* background[j] <= background[j-1] for every j >= 1, and nowhere above the
\* input, background[j] <= intensity[j] for every j.
C27_SnipBackgroundNonIncreasingInIndex ==
    (bg_pc = "done" /\ SnipDefaultCall /\ Len(bg_call.intensity) >= 3) =>
        /\ \A j \in 2..Len(background) :
              QLe(background[j], background[j - 1])
        /\ \A j \in 1..Len(background) :
              QLe(background[j], bg_call.intensity[j])

\* SNIP with default parameters has returned for an input that rises
\* somewhere, and the background is flat where the input rose
C27_Witness ==
    /\ bg_pc = "done"
    /\ SnipDefaultCall
    /\ Len(bg_call.intensity) >= 3
    /\ bg_round >= 1
    /\ \E j \in 2..Len(background) :
          /\ QLt(bg_call.intensity[j - 1], bg_call.intensity[j])
          /\ QLt(background[j], bg_call.intensity[j])

(***************************************************************************)
(* Properties of detect_peaks_savgol (checked under SpecSavgol).           *)
(***************************************************************************)
\* C28: for every requested window_length and every data length n >= 1 the
\* window length passed to the smoothing filter is odd and not larger
\* than n.
C28_SavgolWindowOddAndWithinData ==
    sg_pc = "savgol_filter" =>
        /\ window_length % 2 = 1
        /\ window_length <= sg_len

(***************************************************************************)
(* Properties of MainWindow (checked under SpecWindow).                    *)
(***************************************************************************)
MwCalled(op) == mw_call' = op

StageCalled ==
    mw_call' \in {"apply_background_subtraction", "apply_kalpha_stripping",
                  "detect_peaks", "match_peaks_with_reference", "reset_data"}

\* the arrays are those the parser produced for the file
AsParsed(xrd) == xrd = ParsedData(xrd.two_theta.file)

\* C29: once a file is loaded, background subtraction, K-alpha stripping,
\* peak detection, matching and reset leave current_data the same object
\* with the angle and intensity arrays as parsed, and after reset_data the
\* data used by the later stages is that object.
C29_StagesLeaveCurrentDataAsParsed ==
    [][(current_data.some /\ StageCalled) =>
           /\ current_data' = current_data
           /\ mw_heap'[current_data.val] = mw_heap[current_data.val]
           /\ AsParsed(mw_heap'[current_data.val])
           /\ MwCalled("reset_data") => DataToUse' = current_data]_vars

C29_Witness ==
    /\ mw_call = "reset_data"
    /\ current_data.some
    /\ current_project # 0
    /\ projects[current_project].background_subtraction.some
    /\ projects[current_project].kalpha_stripping.some
    /\ AsParsed(Deref(current_data))

\* the spectrum the stages read
InUse == Deref(DataToUse)

PeaksComputedFromDataInUse(detected) ==
    /\ DataToUse.some
    /\ \A k \in 1..Len(detected) : detected[k] = InUse

\* C30: in every reachable state a non-empty detected-peak list and a
\* non-null match result were computed from the spectrum in use
\* (processed_data if present, otherwise current_data), and processed data
\* were derived from current_data.
C30_ResultsComputedFromDataInUse ==
    /\ mw_detected_peaks # << >> =>
           PeaksComputedFromDataInUse(mw_detected_peaks)
    /\ peak_match_result.some =>
           /\ peak_match_result.val.detected_peaks = mw_detected_peaks
           /\ PeaksComputedFromDataInUse(mw_detected_peaks)
    /\ processed_data.some =>
           /\ current_data.some
           /\ Deref(processed_data).two_theta = Deref(current_data).two_theta
           /\ Deref(processed_data).intensity.file =
                  Deref(current_data).intensity.file

====
